---- MODULE Spec2Model ----
(***************************************************************************)
(* Nexis agent backend: the Session Wallet Store, the tool set and the     *)
(* model/tool dispatch loop, modelled from src/server/agent.ts (the        *)
(* multi-chain variant, lines 1-953, and the single-call variant, lines    *)
(* 956-1534) and src/unnamed/part_008 (the per-chain serverless variant).  *)
(***************************************************************************)
EXTENDS Integers, Sequences, FiniteSets, TLC

None == "none"

(***************************************************************************)
(* Bounds of the exploration.                                              *)
(***************************************************************************)
\* tool calls the stubbed model may ask for in one request, all rounds together
MaxToolCalls == 3
\* tool calls the stubbed model may put in one response
MaxCalls == 2

(***************************************************************************)
(* Chain registry of the multi-chain variant (CHAIN_CONFIGS).              *)
(***************************************************************************)
ChainKeys == <<"monad", "ethereum", "base", "polygon", "arbitrum", "solana">>

EvmChainKeys == SelectSeq(ChainKeys, LAMBDA c : c # "solana")

EvmChainSet == {EvmChainKeys[i] : i \in 1..Len(EvmChainKeys)}

ChainName(c) ==
  CASE c = "monad" -> "Monad Testnet"
    [] c = "ethereum" -> "Ethereum Sepolia"
    [] c = "base" -> "Base Sepolia"
    [] c = "polygon" -> "Polygon Mumbai"
    [] c = "arbitrum" -> "Arbitrum Sepolia"
    [] c = "solana" -> "Solana Devnet"

(***************************************************************************)
(* Key material.  A private key is an opaque token; ethers / web3.js       *)
(* either derive the address of a well-formed key or throw.                *)
(***************************************************************************)
ValidEvmKeys == {"k1", "k2"}

EvmKeyInputs == ValidEvmKeys \cup {"badkey"}

ValidSolanaKeys == {"s1", "s2"}

SolanaKeyInputs == ValidSolanaKeys \cup {"badsol"}

KeyMaterial == EvmKeyInputs \cup SolanaKeyInputs

\* wallet.address of new ethers.Wallet(privateKey, provider)
EvmAddress(k) == CASE k = "k1" -> "0xA1" [] k = "k2" -> "0xA2"

\* keypair.publicKey.toBase58() of Keypair.fromSecretKey(secretKey)
SolanaAddress(k) == CASE k = "s1" -> "So1" [] k = "s2" -> "So2"

VARIABLES
  evmWallets,     \* MultiChainTools.evmWallets: chain -> private key bound, or None
  solanaKeypair,  \* MultiChainTools.solanaKeypair: key bound, or None
  wallets,        \* BlockchainTools.wallets (per-chain variants): chain -> key, or None
  last,           \* the last tool call made directly on a tool object, and its result
  req,            \* per request: the body received
  pc,             \* per request: position of its handler
  messages,       \* per request: the messages of the graph state
  round,          \* per request: executions of the tools node so far
  running,        \* per request: the tool calls of the round being executed
  order,          \* per request: call indexes of the round in completion order
  response,       \* per request: the response sent, or NoResponse
  log,            \* entries written to the log
  server,         \* the process: whether the model API key is set, and its state
  chat            \* the ChatInterface component: its state and the request in flight

vars == <<evmWallets, solanaKeypair, wallets, last, req, pc, messages, round,
          running, order, response, log, server, chat>>

Sessions == {1, 2}

(***************************************************************************)
(* Chain registry of the per-chain variants (CHAINS).                      *)
(***************************************************************************)
CHAINS == <<"ethereum", "monad", "bsc", "baseSepolia">>

ChainSet == {CHAINS[i] : i \in 1..Len(CHAINS)}

NoWallets == [c \in ChainSet |-> None]

(***************************************************************************)
(* MultiChainTools: the process-wide wallet store.                         *)
(***************************************************************************)
NoEvmWallets == [c \in EvmChainSet |-> None]

\* getEvmWallet(chain): evmWallets.get(chain) || null
getEvmWallet(evm, chain) == IF chain \in DOMAIN evm THEN evm[chain] ELSE None

\* a store that binds the key on the first EVM chain only
setEvmWalletsFirstOnly(privateKey) ==
  IF privateKey \in ValidEvmKeys
    THEN [threw |-> FALSE,
          evm |-> [c \in EvmChainSet |-> IF c = EvmChainKeys[1] THEN privateKey ELSE None]]
    ELSE [threw |-> TRUE, evm |-> NoEvmWallets]

\* setEvmWallets(privateKey): clear(), then one Wallet per EVM chain; the
\* Wallet constructor throws on the first chain when the key is malformed,
\* after the map was cleared.
setEvmWallets(privateKey) ==
  IF privateKey \in ValidEvmKeys
    THEN [threw |-> FALSE, evm |-> [c \in EvmChainSet |-> privateKey]]
    ELSE [threw |-> TRUE, evm |-> NoEvmWallets]

\* setSolanaKeypair(privateKey): parse, then assign; a parse failure throws
\* before the assignment.
setSolanaKeypair(privateKey, sol) ==
  IF privateKey \in ValidSolanaKeys
    THEN [threw |-> FALSE, sol |-> privateKey]
    ELSE [threw |-> TRUE, sol |-> sol]

\* getConnectedChains()
getConnectedChains(evm, sol) ==
  SelectSeq(EvmChainKeys, LAMBDA c : evm[c] # None)
    \o (IF sol # None THEN <<"solana">> ELSE <<>>)

(***************************************************************************)
(* Tool calls and tool results.                                            *)
(***************************************************************************)
Call(name, evm, sol) == [name |-> name, evm |-> evm, sol |-> sol]

Ok(text, lines) == [kind |-> "ok", text |-> text, lines |-> lines]

Thrown(text) == [kind |-> "thrown", text |-> text, lines |-> <<>>]

NoOut == [kind |-> "none", text |-> "", lines |-> <<>>]

\* net of a call: the invocations it made on a signer, a provider or a
\* connection, in order, each with its outcome
NoCall == [call |-> Call(None, None, None), out |-> NoOut, net |-> <<>>]

\* one invocation on a signer, provider or connection
Invocation(op, ok) == [op |-> op, ok |-> ok]

\* a setWallet that answers a call without keys by throwing
SetWalletCallNoKeyThrows(a, evm, sol) ==
  IF a.evm = None /\ a.sol = None
    THEN [evm |-> evm, sol |-> sol, out |-> Thrown("Failed to set wallet")]
    ELSE [evm |-> IF a.evm # None THEN setEvmWallets(a.evm).evm ELSE evm,
          sol |-> IF a.sol # None THEN setSolanaKeypair(a.sol, sol).sol ELSE sol,
          out |-> Ok("connected", <<>>)]

\* SetWalletTool._call
SetWalletCall(a, evm, sol) ==
  IF a.evm = None /\ a.sol = None
    THEN [evm |-> evm, sol |-> sol,
          out |-> Ok("Please provide at least one private key", <<>>)]
    ELSE
      LET e == IF a.evm # None THEN setEvmWallets(a.evm)
                               ELSE [threw |-> FALSE, evm |-> evm]
      IN IF e.threw
           THEN [evm |-> e.evm, sol |-> sol, out |-> Thrown("Failed to set wallet")]
           ELSE
             LET s == IF a.sol # None THEN setSolanaKeypair(a.sol, sol)
                                      ELSE [threw |-> FALSE, sol |-> sol]
                 w == getEvmWallet(e.evm, "monad")
                 evmLines == IF a.evm # None /\ w # None
                               THEN <<<<"EVM", EvmAddress(w)>>>> ELSE <<>>
                 solLines == IF a.sol # None /\ s.sol # None
                               THEN <<<<"Solana", SolanaAddress(s.sol)>>>> ELSE <<>>
             IN IF s.threw
                  THEN [evm |-> e.evm, sol |-> sol,
                        out |-> Thrown("Failed to set wallet")]
                  ELSE [evm |-> e.evm, sol |-> s.sol,
                        out |-> Ok("connected", evmLines \o solLines)]

\* a disconnect that clears the EVM wallets and keeps the Solana keypair
DisconnectCallEvmOnly(evm, sol) ==
  [evm |-> NoEvmWallets, sol |-> sol,
   out |-> Ok("All wallets disconnected successfully", <<>>)]

\* DisconnectWalletTool._call -> clearWallets()
DisconnectCall(evm, sol) ==
  [evm |-> NoEvmWallets, sol |-> None,
   out |-> Ok("All wallets disconnected successfully", <<>>)]

RECURSIVE AddressLines(_, _)
\* the forEach of GetWalletAddressTool._call over the EVM chains, from chain i
AddressLines(evm, i) ==
  IF i > Len(EvmChainKeys) THEN <<>>
  ELSE LET c == EvmChainKeys[i]
           w == getEvmWallet(evm, c)
       IN (IF w # None THEN <<<<ChainName(c), EvmAddress(w)>>>> ELSE <<>>)
            \o AddressLines(evm, i + 1)

\* GetWalletAddressTool._call
GetWalletAddressCall(evm, sol) ==
  LET addresses == AddressLines(evm, 1)
        \o (IF sol # None
              THEN <<<<ChainName("solana"), SolanaAddress(sol)>>>> ELSE <<>>)
  IN IF Len(addresses) = 0
       THEN Ok("No wallets connected", <<>>)
       ELSE Ok("Connected wallet addresses", addresses)

(***************************************************************************)
(* GetAllBalancesTool._call.  It reads the wallet of a chain, awaits the   *)
(* balance of that wallet's address and only then reads the next chain's   *)
(* wallet: every await is a point where other tool calls run.              *)
(***************************************************************************)
SolanaPos == Len(EvmChainKeys) + 1

RECURSIVE NextWithWallet(_, _)
\* the first chain index >= i whose wallet is set, SolanaPos when there is none
NextWithWallet(evm, i) ==
  IF i > Len(EvmChainKeys) THEN SolanaPos
  ELSE IF getEvmWallet(evm, EvmChainKeys[i]) # None THEN i
  ELSE NextWithWallet(evm, i + 1)

\* the line pushed once the awaited getBalance(address) returned or threw:
\* the chain's name with the balance of addr, recorded as the address whose
\* balance it is, or with "Error fetching balance" and no balance
BalanceLine(pos, addr, failed) ==
  <<ChainName(ChainKeys[pos]), IF failed THEN None ELSE addr,
    IF failed THEN "Error fetching balance" ELSE "balance">>

BalancesResult(lines) ==
  IF Len(lines) = 0 THEN Ok("No wallets connected", <<>>)
  ELSE Ok("Token Balances Across All Chains", lines)

\* one run of the code between two awaits: t is the call's execution state,
\* failed tells whether the awaited RPC call threw
BalancesStep(t, evm, sol, failed) ==
  LET lines == IF t.st = "await" THEN Append(t.lines, BalanceLine(t.pos, t.addr, failed))
                                 ELSE <<>>
      q == IF t.st = "await"
             THEN (IF t.pos >= SolanaPos THEN SolanaPos + 1
                   ELSE NextWithWallet(evm, t.pos + 1))
             ELSE NextWithWallet(evm, 1)
  IN IF q < SolanaPos
       THEN [t EXCEPT !.st = "await", !.pos = q, !.lines = lines,
                      !.addr = EvmAddress(evm[EvmChainKeys[q]])]
     ELSE IF q = SolanaPos /\ sol # None
       THEN [t EXCEPT !.st = "await", !.pos = q, !.lines = lines,
                      !.addr = SolanaAddress(sol)]
     ELSE [t EXCEPT !.st = "done", !.lines = lines, !.out = BalancesResult(lines)]

RECURSIVE BalancesRun(_, _, _)
\* the call run to completion, every RPC call succeeding, against a store
\* that does not change
BalancesRun(t, evm, sol) ==
  IF t.st = "done" THEN t.out
  ELSE BalancesRun(BalancesStep(t, evm, sol, FALSE), evm, sol)

(***************************************************************************)
(* The tools node (ToolNode over the tool list) and the messages.          *)
(***************************************************************************)
\* execution state of a requested call that has not started
Pending(call) ==
  [call |-> call, st |-> "pending", pos |-> 0, addr |-> None, lines |-> <<>>,
   snaps |-> {}, out |-> NoOut]

HumanMessage(tokens) == [type |-> "human", tokens |-> tokens]

AIMessage(n, calls) ==
  [type |-> "ai", id |-> n, calls |-> calls, content |-> [text |-> "model text", of |-> n]]

\* a tools node that lets the exception of a tool reject the whole round
ToolErrorsEscape == FALSE

\* ToolNode is built with its defaults: a tool that throws is caught and
\* answered with an error ToolMessage (handleToolErrors)
HandleToolErrors == TRUE

\* the ToolMessage of call i of model response n
ToolMessage(n, i, t) ==
  [type |-> "tool", of |-> n, idx |-> i, name |-> t.call.name,
   content |-> IF t.out.kind = "thrown"
                 THEN [kind |-> "error", text |-> t.out.text, lines |-> <<>>]
                 ELSE t.out]

\* a tools node that returns no message for a call that threw
ToolNodeOutputsSkipFailed(n, run, ord) ==
  SelectSeq([i \in 1..Len(run) |-> ToolMessage(n, i, run[i])],
            LAMBDA m : m.content.kind # "error")

\* a tools node that returns the messages in the order the calls completed
ToolNodeOutputsByCompletion(n, run, ord) ==
  [k \in 1..Len(run) |-> ToolMessage(n, ord[k], run[ord[k]])]

\* outputs of ToolNode: Promise.all over tool_calls.map(...) keeps the
\* position of each call, whatever the order of completion ord
ToolNodeOutputs(n, run, ord) == [i \in 1..Len(run) |-> ToolMessage(n, i, run[i])]

NoResponse == [status |-> 0, content |-> [text |-> "", of |-> 0], cause |-> None]

Response(status, content, cause) ==
  [status |-> status, content |-> content, cause |-> cause]

Store == [evm |-> evmWallets, sol |-> solanaKeypair]

\* number of tool results in a message list
ToolCount(msgs) == Cardinality({p \in 1..Len(msgs) : msgs[p].type = "tool"})

\* number of model responses in a message list
AICount(msgs) == Cardinality({p \in 1..Len(msgs) : msgs[p].type = "ai"})

Last(seq) == seq[Len(seq)]

(***************************************************************************)
(* Requests.  A body is what the client posted; None is an absent field.   *)
(***************************************************************************)
Body(input, evm, sol) == [input |-> input, evm |-> evm, sol |-> sol]

\* input is a sequence of words, empty when the field is absent
NoBody == Body(<<>>, None, None)

Bodies == {Body(<<>>, "k1", None), Body(<<"hi">>, "k1", "s1")}

\* the chains whose RPC endpoint may fail in the runs explored
FlakyChains == {"ethereum"}

\* the tool calls the stubbed model chooses from
ToolMenu ==
  {Call("setWallet", "k1", None), Call("setWallet", "badkey", None),
   Call("setWallet", None, "s1"), Call("disconnectWallet", None, None),
   Call("getWalletAddress", None, None), Call("getAllBalances", None, None)}

CallSeqs(menu, maxCalls) == UNION {[1..k -> menu] : k \in 1..maxCalls}

\* a chat message: who wrote it and what it says
Message(role, content) == [role |-> role, content |-> content]

\* the ChatInterface component after its first render and effects, before
\* the user has signed in
NewChat ==
  [messages |-> <<Message("assistant", "greeting")>>,
   inputValue |-> "",
   isLoading |-> FALSE,
   connectionError |-> "Please authenticate",
   isAuthenticated |-> FALSE,
   flight |-> None]

\* the process of a run: which variant was started, whether OPENAI_API_KEY
\* is set, and whether it is loading, listening or has exited
Server(variant, key, st) == [variant |-> variant, key |-> key, st |-> st]

\* the state after construction, with the requests of `active` received
\* and the process in state srv
InitProcess(active, bodies, srv) ==
  /\ evmWallets = NoEvmWallets
  /\ solanaKeypair = None
  /\ wallets = NoWallets
  /\ last = NoCall
  /\ req \in [Sessions -> bodies \cup {NoBody}]
  /\ \A s \in Sessions : IF s \in active THEN req[s] \in bodies ELSE req[s] = NoBody
  /\ pc = [s \in Sessions |-> IF s \in active THEN "recv" ELSE "idle"]
  /\ messages = [s \in Sessions |-> <<>>]
  /\ round = [s \in Sessions |-> 0]
  /\ running = [s \in Sessions |-> <<>>]
  /\ order = [s \in Sessions |-> <<>>]
  /\ response = [s \in Sessions |-> NoResponse]
  /\ log = {}
  /\ server = srv
  /\ chat = NewChat

\* the state after construction of a process that was started with its key
\* and listens
InitWith(active, bodies) == InitProcess(active, bodies, Server("any", TRUE, "listening"))

(***************************************************************************)
(* agentHandler of the multi-chain variant, up to agent.invoke.            *)
(***************************************************************************)
\* the synthetic "setWallet {...}" message for the keys of the body
WalletMessage(b) ==
  IF b.evm # None \/ b.sol # None
    THEN <<HumanMessage(<<"setWallet">>
             \o (IF b.evm # None THEN <<b.evm>> ELSE <<>>)
             \o (IF b.sol # None THEN <<b.sol>> ELSE <<>>))>>
    ELSE <<>>

\* a handler that looks at the keys of the body before it looks at input
AgentHandlerKeysFirst(s) ==
  /\ pc[s] = "recv"
  /\ IF Len(req[s].input) = 0 /\ WalletMessage(req[s]) = <<>>
       THEN /\ response' = [response EXCEPT ![s] =
                 Response(400, [text |-> "Input is required", of |-> 0], None)]
            /\ pc' = [pc EXCEPT ![s] = "done"]
            /\ UNCHANGED messages
       ELSE /\ messages' = [messages EXCEPT ![s] =
                 WalletMessage(req[s]) \o <<HumanMessage(req[s].input)>>]
            /\ pc' = [pc EXCEPT ![s] = "agent"]
            /\ UNCHANGED response
  /\ UNCHANGED <<wallets, last, evmWallets, solanaKeypair, req, server, chat, round, running, order, log>>

AgentHandler(s) ==
  /\ pc[s] = "recv"
  /\ IF Len(req[s].input) = 0
       THEN /\ response' = [response EXCEPT ![s] =
                 Response(400, [text |-> "Input is required", of |-> 0], None)]
            /\ pc' = [pc EXCEPT ![s] = "done"]
            /\ UNCHANGED messages
       ELSE /\ messages' = [messages EXCEPT ![s] =
                 WalletMessage(req[s]) \o <<HumanMessage(req[s].input)>>]
            /\ pc' = [pc EXCEPT ![s] = "agent"]
            /\ UNCHANGED response
  /\ UNCHANGED <<wallets, last, evmWallets, solanaKeypair, req, server, chat, round, running, order, log>>

(***************************************************************************)
(* The workflow: agent -> shouldContinue -> tools -> agent ...             *)
(***************************************************************************)
\* shouldContinue: "tools" when the last message carries tool calls, else END
shouldContinue(msgs) ==
  IF Last(msgs).type = "ai" /\ Len(Last(msgs).calls) > 0 THEN "tools" ELSE "END"

\* a handler whose catch logs the failure of the model call and sends nothing
CallAgentThrowsSilently(s) ==
  /\ pc[s] = "agent"
  /\ pc' = [pc EXCEPT ![s] = "done"]
  /\ log' = log \cup {<<"Agent handler error">>}
  /\ order' = [order EXCEPT ![s] = <<>>]
  /\ UNCHANGED <<wallets, last, evmWallets, solanaKeypair, req, server, chat, messages, round, running,
                 response>>

\* callAgent throws (the model call failed): agent.invoke rejects and the
\* handler's catch answers 500
CallAgentThrows(s) ==
  /\ pc[s] = "agent"
  /\ pc' = [pc EXCEPT ![s] = "done"]
  /\ response' = [response EXCEPT ![s] =
       Response(500, [text |-> "Internal server error", of |-> 0], "model")]
  /\ log' = log \cup {<<"Agent handler error">>}
  /\ order' = [order EXCEPT ![s] = <<>>]
  /\ UNCHANGED <<wallets, last, evmWallets, solanaKeypair, req, server, chat, messages, round, running>>

\* agent.invoke({ messages }) passes no recursionLimit, so the graph runs
\* at most the library's default number of supersteps (one per run of the
\* agent node or of the tools node) and then rejects with GraphRecursionError
RecursionLimit == 25

\* the supersteps run so far: one per model response, one per finished round
Supersteps(msgs, rounds) == AICount(msgs) + rounds

\* callAgent appends the model's response; on END the handler sends the
\* content of the last message; on "tools" the tools node starts the calls,
\* unless the superstep limit is reached: then agent.invoke rejects and the
\* handler's catch answers 500
CallAgent(s, calls, maxTotal) ==
  /\ pc[s] = "agent"
  /\ ToolCount(messages[s]) + Len(calls) <= maxTotal
  /\ LET msgs == Append(messages[s], AIMessage(AICount(messages[s]) + 1, calls))
     IN /\ messages' = [messages EXCEPT ![s] = msgs]
        /\ IF shouldContinue(msgs) = "tools"
                /\ Supersteps(msgs, round[s]) >= RecursionLimit
             THEN /\ pc' = [pc EXCEPT ![s] = "done"]
                  /\ response' = [response EXCEPT ![s] =
                       Response(500, [text |-> "Internal server error", of |-> 0],
                                "recursion")]
                  /\ log' = log \cup {<<"Agent handler error">>}
                  /\ UNCHANGED <<round, running>>
           ELSE IF shouldContinue(msgs) = "tools"
             THEN /\ pc' = [pc EXCEPT ![s] = "tools"]
                  /\ round' = [round EXCEPT ![s] = @ + 1]
                  /\ running' = [running EXCEPT ![s] =
                       [i \in 1..Len(calls) |-> Pending(calls[i])]]
                  /\ UNCHANGED <<response, log>>
             ELSE /\ pc' = [pc EXCEPT ![s] = "done"]
                  /\ response' = [response EXCEPT ![s] =
                       Response(200, Last(msgs).content, None)]
                  /\ UNCHANGED <<round, running, log>>
  /\ order' = [order EXCEPT ![s] = <<>>]
  /\ UNCHANGED <<wallets, last, evmWallets, solanaKeypair, req, server, chat>>

\* snaps of a call: the states the store went through while the call ran
Seen(t, snap) == [t EXCEPT !.snaps = @ \cup {snap}]

\* every call suspended at an await overlaps the store that a step leaves
Observe(run, snap) ==
  [j \in 1..Len(run) |-> IF run[j].st = "await" THEN Seen(run[j], snap) ELSE run[j]]

\* call i of request s steps to execution state t, leaving the store (evm, sol)
StepTo(s, i, t, evm, sol) ==
  /\ pc[s] = "tools"
  /\ evmWallets' = evm
  /\ solanaKeypair' = sol
  /\ running' = [r \in Sessions |->
       Observe(IF r = s THEN [running[s] EXCEPT ![i] = Seen(t, [evm |-> evm, sol |-> sol])]
                        ELSE running[r],
               [evm |-> evm, sol |-> sol])]
  /\ order' = [order EXCEPT ![s] = IF t.st = "done" THEN Append(@, i) ELSE @]
  /\ IF t.st = "done" /\ t.out.kind = "thrown" /\ ~HandleToolErrors
       THEN /\ pc' = [pc EXCEPT ![s] = "done"]
            /\ response' = [response EXCEPT ![s] =
                 Response(500, [text |-> "Internal server error", of |-> 0], "tool")]
       ELSE UNCHANGED <<pc, response>>
  /\ UNCHANGED <<wallets, last, req, server, chat, messages, round>>

Finished(t, out) == [t EXCEPT !.st = "done", !.out = out]

IsPending(s, i, name) ==
  /\ pc[s] = "tools"
  /\ i \in 1..Len(running[s])
  /\ running[s][i].st # "done"
  /\ running[s][i].call.name = name

RunSetWallet(s, i) ==
  /\ IsPending(s, i, "setWallet")
  /\ LET r == SetWalletCall(running[s][i].call, evmWallets, solanaKeypair)
     IN /\ StepTo(s, i, Finished(running[s][i], r.out), r.evm, r.sol)
        /\ log' = log \cup
             (IF r.out.kind = "thrown" THEN {<<"SetWalletTool error">>}
              ELSE IF r.out.text = "connected" THEN {<<"Wallets connected for chains">>}
              ELSE {})

RunDisconnectWallet(s, i) ==
  /\ IsPending(s, i, "disconnectWallet")
  /\ LET r == DisconnectCall(evmWallets, solanaKeypair)
     IN /\ StepTo(s, i, Finished(running[s][i], r.out), r.evm, r.sol)
        /\ log' = log \cup {<<"All wallets cleared from memory">>}

RunGetWalletAddress(s, i) ==
  /\ IsPending(s, i, "getWalletAddress")
  /\ StepTo(s, i, Finished(running[s][i], GetWalletAddressCall(evmWallets, solanaKeypair)),
            evmWallets, solanaKeypair)
  /\ UNCHANGED log

\* HelpTool._call returns the fixed help text
RunHelp(s, i) ==
  /\ IsPending(s, i, "help")
  /\ StepTo(s, i, Finished(running[s][i], Ok("Nexis Multi-Chain AI Assistant", <<>>)),
            evmWallets, solanaKeypair)
  /\ UNCHANGED log

RunGetAllBalances(s, i) ==
  /\ IsPending(s, i, "getAllBalances")
  /\ \E failed \in BOOLEAN :
       /\ failed => /\ running[s][i].st = "await"
                    /\ ChainKeys[running[s][i].pos] \in FlakyChains
       /\ StepTo(s, i, BalancesStep(running[s][i], evmWallets, solanaKeypair, failed),
                 evmWallets, solanaKeypair)
  /\ UNCHANGED log

\* Promise.all resolved: the tools node returns its messages, the reducer
\* appends them and the edge tools -> agent is taken
ToolsDone(s) ==
  /\ pc[s] = "tools"
  /\ \A i \in 1..Len(running[s]) : running[s][i].st = "done"
  /\ messages' = [messages EXCEPT ![s] =
       @ \o ToolNodeOutputs(Last(@).id, running[s], order[s])]
  /\ pc' = [pc EXCEPT ![s] = "agent"]
  /\ running' = [running EXCEPT ![s] = <<>>]
  /\ UNCHANGED <<wallets, last, evmWallets, solanaKeypair, req, server, chat, round, order, response, log>>

RunTool(s) ==
  \E i \in 1..MaxCalls + 1 :
    \/ RunSetWallet(s, i)
    \/ RunDisconnectWallet(s, i)
    \/ RunGetWalletAddress(s, i)
    \/ RunGetAllBalances(s, i)

(***************************************************************************)
(* One request served by the multi-chain agent.                            *)
(***************************************************************************)
Init == InitWith({1}, Bodies)

Next ==
  \/ AgentHandler(1)
  \/ CallAgentThrows(1)
  \/ \E calls \in CallSeqs(ToolMenu, MaxCalls) \cup {<<>>} : CallAgent(1, calls, MaxToolCalls)
  \/ RunTool(1)
  \/ ToolsDone(1)

Spec == Init /\ [][Next]_vars

(***************************************************************************)
(* Properties of the dispatch loop (Spec).                                 *)
(***************************************************************************)
\* the tool results of model response n in msgs, as positions
ResultsOf(msgs, n) == {p \in 1..Len(msgs) : msgs[p].type = "tool" /\ msgs[p].of = n}

\* C5: a tool call that throws does not abort the round or the loop: no
\* response is ever an error caused by a tool, a round in which a call threw
\* is still executing its calls, and once the round is over the call that
\* threw has an error string as its result and every other call of the same
\* model response has its result too.
C5_ToolFailureContained ==
  \A s \in Sessions :
    /\ response[s].cause # "tool"
    /\ \A i \in 1..Len(running[s]) :
         running[s][i].out.kind = "thrown" => pc[s] = "tools"
    /\ pc[s] \in {"agent", "done"} =>
         \A q \in 1..Len(messages[s]) :
           messages[s][q].type = "ai" =>
             \A i \in 1..Len(messages[s][q].calls) :
               LET c == messages[s][q].calls[i]
               IN (c.name = "setWallet" /\ c.evm # None /\ c.evm \notin ValidEvmKeys) =>
                    /\ \E p \in ResultsOf(messages[s], messages[s][q].id) :
                         /\ messages[s][p].idx = i
                         /\ messages[s][p].content.kind = "error"
                    /\ \A j \in 1..Len(messages[s][q].calls) :
                         \E p \in ResultsOf(messages[s], messages[s][q].id) :
                           messages[s][p].idx = j

\* a round of two calls is over, its first call threw and its second call
\* returned normally, and the loop is routing again
C5_Witness ==
  /\ pc[1] = "agent"
  /\ Len(messages[1]) >= 3
  /\ LET n == Len(messages[1])
     IN /\ messages[1][n - 2].type = "ai"
        /\ messages[1][n - 1].type = "tool"
        /\ messages[1][n - 1].content.kind = "error"
        /\ messages[1][n].type = "tool"
        /\ messages[1][n].content.kind = "ok"

\* C6: every tool result comes directly after the model response that asked
\* for it, separated from it only by results of the same response, and when
\* the model is about to be invoked every call requested so far has exactly
\* one result.
C6_ResultsFollowTheirRequest ==
  \A s \in Sessions :
    /\ \A p \in 1..Len(messages[s]) :
         messages[s][p].type = "tool" =>
           \E q \in 1..(p - 1) :
             /\ messages[s][q].type = "ai"
             /\ messages[s][q].id = messages[s][p].of
             /\ messages[s][p].idx \in 1..Len(messages[s][q].calls)
             /\ \A r \in (q + 1)..(p - 1) :
                  messages[s][r].type = "tool" /\ messages[s][r].of = messages[s][q].id
    /\ pc[s] = "agent" =>
         \A q \in 1..Len(messages[s]) :
           messages[s][q].type = "ai" =>
             \A i \in 1..Len(messages[s][q].calls) :
               Cardinality({p \in ResultsOf(messages[s], messages[s][q].id) :
                              messages[s][p].idx = i}) = 1

\* the model is about to be invoked for the third time, after two rounds
C6_Witness ==
  /\ pc[1] = "agent"
  /\ AICount(messages[1]) = 2
  /\ ToolCount(messages[1]) = 3

\* C7: the results of one round stand in the conversation in the order in
\* which the model requested the calls, whatever order the calls completed in.
C7_ResultsInRequestOrder ==
  \A s \in Sessions :
    \A p1, p2 \in 1..Len(messages[s]) :
      (/\ p1 < p2
       /\ messages[s][p1].type = "tool"
       /\ messages[s][p2].type = "tool"
       /\ messages[s][p1].of = messages[s][p2].of)
        => messages[s][p1].idx < messages[s][p2].idx

\* the second call of a round completed before the first, and the results
\* of the round have been appended
C7_Witness ==
  /\ pc[1] = "agent"
  /\ order[1] = <<2, 1>>
  /\ ToolCount(messages[1]) >= 2
  /\ Last(messages[1]).type = "tool"

\* line l reports the signer that line r reports: the same chain and, where
\* l shows an address or the balance of one, the same address
SameSigner(l, r) == l[1] = r[1] /\ (l[2] = None \/ l[2] = r[2])

\* what a balance or address call reports when the store is S throughout
ReportOf(call, S) ==
  IF call.name = "getAllBalances" THEN BalancesRun(Pending(call), S.evm, S.sol)
  ELSE GetWalletAddressCall(S.evm, S.sol)

\* C8: a finished balance or address call reports the signers of one of the
\* states the store went through while the call ran.
C8_ConsistentView ==
  \A s \in Sessions :
    \A i \in 1..Len(running[s]) :
      LET t == running[s][i]
      IN (t.st = "done" /\ t.call.name \in {"getAllBalances", "getWalletAddress"}) =>
           \E S \in t.snaps :
             LET r == ReportOf(t.call, S).lines
             IN /\ Len(t.out.lines) = Len(r)
                /\ \A k \in 1..Len(r) : SameSigner(t.out.lines[k], r[k])

\* C25: a request without input is answered 400; no message list is built
\* for it, so no model call and no tool call is made, and the EVM wallets,
\* the Solana keypair and the last tool call stay as they were at start,
\* also when the body carries keys.
C25_NoInputNoWork ==
  \A s \in Sessions :
    (Len(req[s].input) = 0 /\ pc[s] \notin {"idle", "recv"})
      => /\ response[s] = Response(400, [text |-> "Input is required", of |-> 0], None)
         /\ pc[s] = "done"
         /\ messages[s] = <<>>
         /\ round[s] = 0
         /\ running[s] = <<>>
         /\ last = NoCall
         /\ evmWallets = NoEvmWallets
         /\ solanaKeypair = None

\* a request with a key and without input has been answered
C25_Witness ==
  /\ Len(req[1].input) = 0
  /\ req[1].evm # None
  /\ response[1].status = 400

\* the runs in which every enabled step of the handler, of the model call
\* and of the tool calls is eventually taken: each model call and each tool
\* call returns or fails
LiveMenu == {Call("setWallet", "k1", None), Call("setWallet", "badkey", None),
             Call("disconnectWallet", None, None), Call("getWalletAddress", None, None),
             Call("getAllBalances", None, None)}

\* tool calls per model response and per request in the fair runs
MaxLiveCalls == 1

MaxLiveToolCalls == 2

NextLive ==
  \/ AgentHandler(1)
  \/ CallAgentThrows(1)
  \/ \E calls \in CallSeqs(LiveMenu, MaxLiveCalls) \cup {<<>>} :
       CallAgent(1, calls, MaxLiveToolCalls)
  \/ RunTool(1)
  \/ ToolsDone(1)

SpecLive == Init /\ [][NextLive]_vars /\ WF_vars(NextLive)

\* C26: every request received is eventually answered, with status 200, 400
\* or 500, and once a response has been sent it is never replaced.
C26_EveryRequestAnswered ==
  /\ \A s \in {1} : (pc[s] = "recv") ~> (pc[s] = "done" /\ response[s].status \in {200, 400, 500})
  /\ [][\A s \in Sessions : response[s] # NoResponse => response'[s] = response[s]]_vars

\* the model call failed and the request was answered with the error
\* envelope
C26_Witness ==
  /\ pc[1] = "done"
  /\ response[1].status = 500
  /\ response[1].cause = "model"

(***************************************************************************)
(* The wallet tools of the multi-chain variant called one after the other  *)
(* on the tool objects, each call run to its end before the next starts.   *)
(***************************************************************************)
\* the key arguments a caller passes to setWallet
SetWalletArgs ==
  {Call("setWallet", e, k) : e \in EvmKeyInputs \cup {None}, k \in SolanaKeyInputs \cup {None}}

RECURSIVE BalancesRunWith(_, _, _, _)
\* getAllBalances run to completion while the RPC endpoints of `down` fail
BalancesRunWith(t, evm, sol, down) ==
  IF t.st = "done" THEN t.out
  ELSE BalancesRunWith(
         BalancesStep(t, evm, sol, t.st = "await" /\ ChainKeys[t.pos] \in down),
         evm, sol, down)

\* the call `call` returned `r` ([evm, sol, out]) and wrote `entries` to the log
Direct(call, r, entries) ==
  /\ evmWallets' = r.evm
  /\ solanaKeypair' = r.sol
  /\ last' = [call |-> call, out |-> r.out,
              net |-> IF "net" \in DOMAIN r THEN r.net ELSE <<>>]
  /\ log' = log \cup entries
  /\ UNCHANGED <<wallets, req, server, chat, pc, messages, round, running, order, response>>

SetWallet(a) ==
  LET r == SetWalletCall(a, evmWallets, solanaKeypair)
  IN Direct(a, r,
            IF r.out.kind = "thrown" THEN {<<"SetWalletTool error">>}
            ELSE IF r.out.text = "connected" THEN {<<"Wallets connected for chains">>}
            ELSE {})

DisconnectWallet ==
  Direct(Call("disconnectWallet", None, None),
         DisconnectCall(evmWallets, solanaKeypair),
         {<<"All wallets cleared from memory">>})

GetWalletAddress ==
  Direct(Call("getWalletAddress", None, None),
         [evm |-> evmWallets, sol |-> solanaKeypair,
          out |-> GetWalletAddressCall(evmWallets, solanaKeypair)],
         {})

\* the getBalance invocations behind the lines of a getAllBalances result
BalancesNet(lines) ==
  [i \in 1..Len(lines) |-> Invocation("getBalance", lines[i][2] # None)]

GetAllBalances(down) ==
  LET call == Call("getAllBalances", None, None)
  IN Direct(call,
            [evm |-> evmWallets, sol |-> solanaKeypair,
             out |-> BalancesRunWith(Pending(call), evmWallets, solanaKeypair, down),
             net |-> BalancesNet(
                       BalancesRunWith(Pending(call), evmWallets, solanaKeypair, down).lines)],
            {})

InitStore == InitWith({}, {NoBody})

NextStore ==
  \/ \E a \in SetWalletArgs : SetWallet(a)
  \/ DisconnectWallet
  \/ GetWalletAddress
  \/ \E down \in SUBSET FlakyChains : GetAllBalances(down)

SpecStore == InitStore /\ [][NextStore]_vars

\* the lines of a result that name an EVM chain
EvmLines(lines) ==
  SelectSeq(lines, LAMBDA l : \E c \in EvmChainSet : l[1] = ChainName(c))

\* C9: after setWallet succeeded with an EVM key, the signer of every EVM
\* chain is the signer of that key, and getWalletAddress called next returns
\* one line per EVM chain, in registry order, all with the address of the key.
C9_OneKeyOnEveryEvmChain ==
  (/\ last.call.name = "setWallet"
   /\ last.call.evm # None
   /\ last.out.kind = "ok")
    => /\ \A c \in EvmChainSet : getEvmWallet(evmWallets, c) = last.call.evm
       /\ EvmLines(GetWalletAddressCall(evmWallets, solanaKeypair).lines)
            = [i \in 1..Len(EvmChainKeys) |->
                 <<ChainName(EvmChainKeys[i]), EvmAddress(last.call.evm)>>]

\* setWallet has just succeeded with the key k2 and getWalletAddress reports
\* the address of k2
C9_Witness ==
  /\ last.call.name = "setWallet"
  /\ last.call.evm = "k2"
  /\ last.out.kind = "ok"
  /\ "0xA2" \in {GetWalletAddressCall(evmWallets, solanaKeypair).lines[i][2] :
                   i \in 1..Len(GetWalletAddressCall(evmWallets, solanaKeypair).lines)}

\* C11: after disconnectWallet, whatever connects preceded it, no signer is
\* left on any chain and getWalletAddress called next reports that no wallet
\* is connected.
C11_DisconnectClearsAll ==
  last.call.name = "disconnectWallet" =>
    /\ \A c \in EvmChainSet : getEvmWallet(evmWallets, c) = None
    /\ solanaKeypair = None
    /\ GetWalletAddressCall(evmWallets, solanaKeypair) = Ok("No wallets connected", <<>>)

\* disconnectWallet has just returned after setWallet had connected wallets
C11_Witness ==
  /\ last.call.name = "disconnectWallet"
  /\ last.out.kind = "ok"
  /\ <<"Wallets connected for chains">> \in log

\* C24: setWallet called with neither an EVM key nor a Solana key returns
\* the message that asks for a key, does not throw, and leaves the EVM
\* wallets and the Solana keypair as they were.
C24_NoKeyIsAMessage ==
  [][(/\ last'.call.name = "setWallet"
      /\ last'.call.evm = None
      /\ last'.call.sol = None)
       => /\ last'.out = Ok("Please provide at least one private key", <<>>)
          /\ evmWallets' = evmWallets
          /\ solanaKeypair' = solanaKeypair]_vars

\* a setWallet without keys answered while wallets of both families are
\* connected
C24_Witness ==
  /\ last.call = Call("setWallet", None, None)
  /\ last.out.kind = "ok"
  /\ getEvmWallet(evmWallets, "monad") # None
  /\ solanaKeypair # None

\* C28: a setWallet call that fails leaves the EVM wallets and the Solana
\* keypair exactly as they were before the call.
C28_FailedConnectChangesNothing ==
  [][(last'.call.name = "setWallet" /\ last'.out.kind = "thrown")
       => /\ evmWallets' = evmWallets
          /\ solanaKeypair' = solanaKeypair]_vars

(***************************************************************************)
(* The wallet tools of the per-chain variants (BlockchainTools), called    *)
(* one after the other on the tool objects.                                *)
(***************************************************************************)
\* chain arguments as a caller or the model may spell them
ChainArgs == {"ethereum", "Monad", "bsc", "baseSepolia", "solana"}

\* String.prototype.toLowerCase on the chain arguments
toLowerCase(w) ==
  CASE w = "Monad" -> "monad"
    [] w = "baseSepolia" -> "basesepolia"
    [] w = "Base" -> "base"
    [] OTHER -> w

\* validateChain: the lower-cased name when it is a key of CHAINS, else throws
validateChain(chain) ==
  LET normalizedChain == toLowerCase(chain)
  IN IF normalizedChain \in ChainSet
       THEN [threw |-> FALSE, chain |-> normalizedChain]
       ELSE [threw |-> TRUE, chain |-> None]

\* CHAINS[chain].name
ChainTitle(c) ==
  CASE c = "ethereum" -> "Ethereum Mainnet"
    [] c = "monad" -> "Monad Testnet"
    [] c = "bsc" -> "Binance Smart Chain"
    [] c = "baseSepolia" -> "Base Sepolia"

ChainCall(name, key, chain) == [name |-> name, evm |-> key, sol |-> None, chain |-> chain]

\* the call `call` left the wallets `w`, returned `out`, logged `entries`
\* and made the invocations `net`
DirectChainNet(call, w, out, entries, net) ==
  /\ wallets' = w
  /\ last' = [call |-> call, out |-> out, net |-> net]
  /\ log' = log \cup entries
  /\ UNCHANGED <<evmWallets, solanaKeypair, req, server, chat, pc, messages, round, running, order,
                 response>>

\* a call that touches neither signer nor provider
DirectChain(call, w, out, entries) == DirectChainNet(call, w, out, entries, <<>>)

\* SetWalletTool._call of the per-chain variants
ChainSetWallet(privateKey, chain) ==
  LET v == validateChain(chain)
      call == ChainCall("setWallet", privateKey, chain)
  IN IF v.threw \/ privateKey \notin ValidEvmKeys
       THEN DirectChain(call, wallets, Thrown("Failed to set wallet"),
                        {<<"SetWalletTool error">>})
       ELSE DirectChain(call, [wallets EXCEPT ![v.chain] = privateKey],
                        Ok("Wallet set", <<<<ChainTitle(v.chain), EvmAddress(privateKey)>>>>),
                        {<<"Wallet set for", v.chain, EvmAddress(privateKey)>>})

\* DisconnectWalletTool._call of the per-chain variants; chain None is the
\* call without a chain argument
ChainDisconnectWallet(chain) ==
  LET call == ChainCall("disconnectWallet", None, chain)
  IN IF chain = None
       THEN DirectChain(call, NoWallets, Ok("All wallets disconnected successfully", <<>>),
                        {<<"All wallets cleared">>})
       ELSE LET v == validateChain(chain)
            IN IF v.threw
                 THEN DirectChain(call, wallets, Thrown("Chain not supported"), {})
                 ELSE DirectChain(call, [wallets EXCEPT ![v.chain] = None],
                                  Ok("Wallet disconnected", <<<<ChainTitle(v.chain)>>>>),
                                  {<<"Wallet cleared for chain", v.chain>>})

\* GetWalletAddressTool._call of the per-chain variants
ChainGetWalletAddress(chain) ==
  LET v == validateChain(chain)
      call == ChainCall("getWalletAddress", None, chain)
  IN IF v.threw
       THEN DirectChain(call, wallets, Thrown("Chain not supported"), {})
     ELSE IF wallets[v.chain] = None
       THEN DirectChain(call, wallets, Ok("No wallet set", <<>>), {})
     ELSE DirectChain(call, wallets,
                      Ok("wallet address",
                         <<<<ChainTitle(v.chain), EvmAddress(wallets[v.chain])>>>>), {})

InitPerChain == InitWith({}, {NoBody})

NextPerChain ==
  \/ \E k \in EvmKeyInputs, c \in ChainArgs : ChainSetWallet(k, c)
  \/ \E c \in ChainArgs \cup {None} : ChainDisconnectWallet(c)
  \/ \E c \in ChainArgs : ChainGetWalletAddress(c)

SpecPerChain == InitPerChain /\ [][NextPerChain]_vars

\* C10: in every state of the wallet store there is at most one signer per
\* chain family: all EVM chains that have a signer have the signer of the
\* same key, in the multi-chain store and in the per-chain store alike.
C10_OneSignerPerFamily ==
  /\ \A c1, c2 \in EvmChainSet :
       (evmWallets[c1] # None /\ evmWallets[c2] # None) => evmWallets[c1] = evmWallets[c2]
  /\ \A c1, c2 \in ChainSet :
       (wallets[c1] # None /\ wallets[c2] # None) => wallets[c1] = wallets[c2]

\* C12: disconnectWallet never fails: whatever its argument and whatever
\* the store holds, a disconnectWallet call returns normally, and when no
\* wallet is connected it leaves the store as it is.
C12_DisconnectNeverFails ==
  [][last'.call.name = "disconnectWallet" =>
       /\ last'.out.kind = "ok"
       /\ wallets = NoWallets => wallets' = NoWallets
       /\ (evmWallets = NoEvmWallets /\ solanaKeypair = None) =>
            (evmWallets' = NoEvmWallets /\ solanaKeypair' = None)]_vars

\* the chain names a caller may write for the registered chain k: the
\* spellings that differ from k in letter case only
Spellings(k) == {c \in ChainArgs : toLowerCase(c) = toLowerCase(k)}

\* C13: chain lookup is case-insensitive: a tool called with a spelling of a
\* registered chain key finds that chain (getWalletAddress answers for it),
\* and a tool called with a name that is no spelling of a registered key
\* fails because the chain is not supported.
C13_LookupIgnoresCase ==
  last.call.name = "getWalletAddress" =>
    /\ \A k \in ChainSet :
         last.call.chain \in Spellings(k) =>
           /\ last.out.kind = "ok"
           /\ \A i \in 1..Len(last.out.lines) : last.out.lines[i][1] = ChainTitle(k)
    /\ (\A k \in ChainSet : last.call.chain \notin Spellings(k)) =>
         last.out = Thrown("Chain not supported")

(***************************************************************************)
(* One request whose model may request a tool in every response: the       *)
(* tools asked for leave the store alone (help, getWalletAddress).         *)
(***************************************************************************)
\* tool calls the model may make over one request
MaxDeepCalls == 13

NoopMenu == {Call("help", None, None), Call("getWalletAddress", None, None)}

InitRounds == InitWith({1}, {Body(<<"hi">>, None, None)})

NextRounds ==
  \/ AgentHandler(1)
  \/ CallAgentThrows(1)
  \/ \E calls \in CallSeqs(NoopMenu, 1) \cup {<<>>} : CallAgent(1, calls, MaxDeepCalls)
  \/ RunHelp(1, 1)
  \/ RunGetWalletAddress(1, 1)
  \/ ToolsDone(1)

SpecRounds == InitRounds /\ [][NextRounds]_vars

\* C1: a run of the loop executes at most the maximum number of tool rounds
\* (ten), and a run that was cut short because the model kept requesting
\* tools is answered with the degraded "unable to complete" text.
C1_TerminatesWithinRoundCap ==
  \A s \in Sessions :
    /\ round[s] <= 10
    /\ response[s].cause = "recursion" =>
         /\ response[s].status = 200
         /\ response[s].content.text = "unable to complete"

(***************************************************************************)
(* Two requests of two clients served by the same process: both run the    *)
(* workflow over the one multiChainTools object of the module.             *)
(***************************************************************************)
\* tool calls the model may make over one request
MaxSessionCalls == 2

\* what each client posts: its own key, or no key
SessionBodies == {Body(<<"hi">>, "k1", None), Body(<<"hi">>, "k2", None),
                  Body(<<"hi">>, None, None)}

\* the calls the model makes for request s: setWallet with the keys of the
\* request, and the calls that take no key
SessionMenu(s) ==
  (IF req[s].evm # None \/ req[s].sol # None
     THEN {Call("setWallet", req[s].evm, req[s].sol)} ELSE {})
    \cup {Call("disconnectWallet", None, None), Call("getWalletAddress", None, None),
          Call("getAllBalances", None, None)}

InitSessions == InitWith(Sessions, SessionBodies)

NextSessions ==
  \E s \in Sessions :
    \/ AgentHandler(s)
    \/ CallAgentThrows(s)
    \/ \E calls \in CallSeqs(SessionMenu(s), 1) \cup {<<>>} :
         CallAgent(s, calls, MaxSessionCalls)
    \/ RunSetWallet(s, 1)
    \/ RunDisconnectWallet(s, 1)
    \/ RunGetWalletAddress(s, 1)
    \/ RunGetAllBalances(s, 1)
    \/ ToolsDone(s)

SpecSessions == InitSessions /\ [][NextSessions]_vars

\* the keys session s connected: those of the setWallet calls made for it
OwnKeys(s) ==
  UNION {UNION {{messages[s][p].calls[i].evm, messages[s][p].calls[i].sol} :
                  i \in 1..Len(messages[s][p].calls)} :
           p \in {q \in 1..Len(messages[s]) : messages[s][q].type = "ai"}} \ {None}

\* the addresses of the keys session s connected
OwnAddresses(s) ==
  {EvmAddress(k) : k \in OwnKeys(s) \cap ValidEvmKeys}
    \cup {SolanaAddress(k) : k \in OwnKeys(s) \cap ValidSolanaKeys}

\* C3: the result of a getAllBalances or getWalletAddress call made for a
\* session shows only addresses, and balances of addresses, of keys that
\* this session connected.
C3_SessionIsolation ==
  \A s \in Sessions :
    \A p \in 1..Len(messages[s]) :
      (/\ messages[s][p].type = "tool"
       /\ messages[s][p].name \in {"getAllBalances", "getWalletAddress"})
        => \A k \in 1..Len(messages[s][p].content.lines) :
             messages[s][p].content.lines[k][2] \in OwnAddresses(s) \cup {None}

(***************************************************************************)
(* The single-call variant of the backend: agentHandler calls invokeAgent, *)
(* which invokes the model once and returns its response.                  *)
(***************************************************************************)
\* what a client posts: input words and an optional privateKey
SimpleBodies ==
  {Body(input, key, None) :
     input \in {<<>>, <<"hi">>, <<"use", "Monad">>, <<"on", "baseSepolia">>},
     key \in {None, "k1", "badkey"}}

\* the chain names the handler looks for in the lower-cased input
MatchedNames == {"ethereum", "monad", "bsc", "basesepolia"}

RECURSIVE chainMatch(_, _)
\* input.toLowerCase().match(/\b(ethereum|monad|bsc|basesepolia)\b/), from word i
chainMatch(input, i) ==
  IF i > Len(input) THEN None
  ELSE IF toLowerCase(input[i]) \in MatchedNames THEN toLowerCase(input[i])
  ELSE chainMatch(input, i + 1)

defaultChain(input) ==
  IF chainMatch(input, 1) # None THEN chainMatch(input, 1) ELSE "baseSepolia"

\* the messages the handler builds from the body
SimpleMessages(b) ==
  (IF b.evm # None
     THEN <<HumanMessage(<<"setWallet", b.evm, defaultChain(b.input)>>)>> ELSE <<>>)
    \o <<HumanMessage(b.input)>>

RECURSIVE ContentTokens(_)
\* JSON.stringify(messages.map(m => m.content)): the words of every message
ContentTokens(msgs) ==
  IF Len(msgs) = 0 THEN <<>> ELSE Head(msgs).tokens \o ContentTokens(Tail(msgs))

RECURSIVE CallTokens(_)
\* JSON.stringify of tool_calls: name and arguments of every call
CallTokens(calls) ==
  IF Len(calls) = 0 THEN <<>>
  ELSE <<Head(calls).name>>
         \o (IF Head(calls).evm # None THEN <<Head(calls).evm>> ELSE <<>>)
         \o (IF Head(calls).chain # None THEN <<Head(calls).chain>> ELSE <<>>)
         \o CallTokens(Tail(calls))

\* agentHandler up to the model call inside invokeAgent
AgentHandlerSimple(s) ==
  /\ pc[s] = "recv"
  /\ IF Len(req[s].input) = 0
       THEN /\ log' = log \cup {<<"Handling request">>, <<"Input is missing in request body">>}
            /\ response' = [response EXCEPT ![s] =
                 Response(400, [text |-> "Input is required", of |-> 0], None)]
            /\ pc' = [pc EXCEPT ![s] = "done"]
            /\ UNCHANGED messages
       ELSE /\ messages' = [messages EXCEPT ![s] = SimpleMessages(req[s])]
            /\ log' = log \cup
                 {<<"Handling request">>,
                  <<"Processing request">> \o req[s].input,
                  <<"invokeAgent messages">> \o ContentTokens(SimpleMessages(req[s]))}
            /\ pc' = [pc EXCEPT ![s] = "invoke"]
            /\ UNCHANGED response
  /\ UNCHANGED <<evmWallets, solanaKeypair, wallets, last, req, server, chat, round, running, order>>

\* modelWithTools.invoke throws: invokeAgent logs and rethrows, the handler's
\* catch logs and answers 500
InvokeAgentThrows(s) ==
  /\ pc[s] = "invoke"
  /\ log' = log \cup {<<"invokeAgent error">>, <<"Handler error">>}
  /\ response' = [response EXCEPT ![s] =
       Response(500, [text |-> "Failed to process request", of |-> 0], "model")]
  /\ pc' = [pc EXCEPT ![s] = "done"]
  /\ UNCHANGED <<evmWallets, solanaKeypair, wallets, last, req, server, chat, messages, round, running,
                 order>>

\* modelWithTools.invoke returns a response requesting `calls`: invokeAgent
\* returns { messages: [response] } and the handler sends its content
InvokeAgent(s, calls) ==
  /\ pc[s] = "invoke"
  /\ LET result == <<AIMessage(1, calls)>>
     IN /\ messages' = [messages EXCEPT ![s] = result]
        /\ response' = [response EXCEPT ![s] = Response(200, Last(result).content, None)]
  /\ log' = log \cup {<<"invokeAgent response">> \o CallTokens(calls),
                      <<"Request processed successfully">>}
  /\ pc' = [pc EXCEPT ![s] = "done"]
  /\ UNCHANGED <<evmWallets, solanaKeypair, wallets, last, req, server, chat, round, running, order>>

\* the calls the model may request for request s
SimpleMenu(s) ==
  (IF req[s].evm # None
     THEN {ChainCall("setWallet", req[s].evm, defaultChain(req[s].input))} ELSE {})
    \cup {ChainCall("getWalletAddress", None, "ethereum"), ChainCall("help", None, None)}

InitSimple == InitWith({1}, SimpleBodies)

NextSimple ==
  \/ AgentHandlerSimple(1)
  \/ InvokeAgentThrows(1)
  \/ \E calls \in CallSeqs(SimpleMenu(1), MaxCalls) \cup {<<>>} : InvokeAgent(1, calls)

SpecSimple == InitSimple /\ [][NextSimple]_vars

\* C2: the text sent to the client as the answer is the text of a model
\* response that requests no tool: when a 200 answer has been sent, the last
\* message of the conversation is that response and it carries no tool call.
C2_AnswerHasNoToolRequests ==
  \A s \in Sessions :
    response[s].status = 200 =>
      /\ Last(messages[s]).type = "ai"
      /\ Last(messages[s]).content = response[s].content
      /\ Len(Last(messages[s]).calls) = 0

\* the private keys supplied in the requests
SuppliedKeys ==
  ({req[s].evm : s \in Sessions} \cup {req[s].sol : s \in Sessions}) \ {None}

\* C4: no private key supplied in a request is part of a log entry or of the
\* text of a response.
C4_KeysNeverLoggedOrReturned ==
  /\ \A e \in log : \A k \in 1..Len(e) : e[k] \notin SuppliedKeys
  /\ \A s \in Sessions : response[s].content.text \notin SuppliedKeys

(***************************************************************************)
(* Transfers.  Amounts and recipients are the strings a caller or the      *)
(* parsing model may hand to a transfer tool.                              *)
(***************************************************************************)
Amounts == {"0.1", "0", "-1", "abc"}

\* Number(amount) / parseFloat(amount) is NaN
NotANumber(amount) == amount = "abc"

\* the amount parses to a number greater than zero
Positive(amount) == amount = "0.1"

Recipients == {"0xB0b", "SoB0b", "not-an-address"}

\* ethers.isAddress(to)
isAddress(to) == to = "0xB0b"

\* new PublicKey(to) does not throw
IsPublicKey(to) == to = "SoB0b"

\* how the network answers a submitted transaction: it is accepted and
\* confirmed, the submission is rejected, waiting for the confirmation
\* throws, or (Solana) the confirmation resolves with value.err set
RpcOutcomes == {"ok", "sendFails", "confirmFails", "confirmErr"}

\* tx = { to, value: ethers.parseEther(amount) }; wallet.sendTransaction(tx);
\* txResponse.wait(): the invocations made and whether the block completed.
\* parseEther throws on a string that is no decimal number and accepts zero
\* and negative numbers; sendTransaction rejects a negative value and a
\* recipient that is no address, and wait() rejects when the transaction
\* failed.
EvmSend(to, amount, rpc) ==
  IF NotANumber(amount) THEN [net |-> <<>>, done |-> FALSE]
  ELSE IF rpc = "sendFails" \/ ~isAddress(to) \/ amount = "-1"
    THEN [net |-> <<Invocation("sendTransaction", FALSE)>>, done |-> FALSE]
  ELSE IF rpc \in {"confirmFails", "confirmErr"}
    THEN [net |-> <<Invocation("sendTransaction", TRUE), Invocation("wait", FALSE)>>,
          done |-> FALSE]
  ELSE [net |-> <<Invocation("sendTransaction", TRUE), Invocation("wait", TRUE)>>,
        done |-> TRUE]

\* the body of transferSolana's try block.  new PublicKey(to) throws on a
\* malformed recipient and the lamports of a non-numeric amount are NaN, which
\* SystemProgram.transfer rejects; for negative lamports either the
\* instruction encoding throws or the transaction is sent and rejected.
\* confirmTransaction resolves also when the transaction failed (value.err),
\* and its result is not looked at.
SolanaSend(to, amount, rpc) ==
  IF ~IsPublicKey(to) \/ NotANumber(amount) THEN [net |-> <<>>, done |-> FALSE]
  ELSE IF amount = "-1"
    THEN [net |-> IF rpc = "sendFails" THEN <<Invocation("sendTransaction", FALSE)>>
                                       ELSE <<>>,
          done |-> FALSE]
  ELSE IF rpc = "sendFails"
    THEN [net |-> <<Invocation("sendTransaction", FALSE)>>, done |-> FALSE]
  ELSE IF rpc = "confirmFails"
    THEN [net |-> <<Invocation("sendTransaction", TRUE),
                    Invocation("confirmTransaction", FALSE)>>,
          done |-> FALSE]
  ELSE [net |-> <<Invocation("sendTransaction", TRUE),
                  Invocation("confirmTransaction", rpc = "ok")>>,
        done |-> TRUE]

\* the result of a transfer tool: out, the invocations made, the log entries
Result(out, net, entries) == [out |-> out, net |-> net, entries |-> entries]

\* SmartTransferTool.transferEvm
transferEvm(evm, chain, to, amount, rpc) ==
  IF getEvmWallet(evm, chain) = None
    THEN Result(Ok("No wallet connected. Please connect your EVM wallet first.", <<>>),
                <<>>, {})
  ELSE IF ~isAddress(to)
    THEN Result(Ok("Invalid recipient address", <<>>), <<>>, {})
  ELSE LET r == EvmSend(to, amount, rpc)
       IN IF r.done
            THEN Result(Ok("Successfully transferred", <<<<ChainName(chain), to, amount>>>>),
                        r.net, {<<"Transfer">>})
            ELSE Result(Thrown("Failed to transfer"), r.net, {})

\* SmartTransferTool.transferSolana
transferSolana(sol, to, amount, rpc) ==
  IF sol = None
    THEN Result(Ok("No Solana wallet connected. Please connect your Solana wallet first.",
                   <<>>), <<>>, {})
  ELSE LET r == SolanaSend(to, amount, rpc)
       IN IF r.done
            THEN Result(Ok("Successfully transferred",
                           <<<<ChainName("solana"), to, amount>>>>),
                        r.net, {<<"Solana transfer">>})
            ELSE Result(Thrown("Failed to transfer SOL"), r.net, {})

\* what the parsing model returned for the instruction: the model call
\* threw, its text holds no JSON object, or the object's four fields
Parsed(amount, token, chain, recipient) ==
  [kind |-> "json", amount |-> amount, token |-> token, chain |-> chain,
   recipient |-> recipient]

NoJson == [Parsed(None, None, None, None) EXCEPT !.kind = "nojson"]

ParseThrows == [Parsed(None, None, None, None) EXCEPT !.kind = "throws"]

\* targetChain: the lower-cased chain, or the chain detected from the token
targetChain(d) ==
  IF d.chain # None THEN toLowerCase(d.chain)
  ELSE IF d.token = "SOL" THEN "solana"
  ELSE IF d.token = "MONAD" THEN "monad"
  ELSE IF d.token = "MATIC" THEN "polygon"
  ELSE "ethereum"

\* SmartTransferTool._call, given the parsing model's answer d; a throw of
\* transferEvm / transferSolana is caught and returned as a string
SmartTransferCall(d, evm, sol, rpc) ==
  IF d.kind = "throws"
    THEN Result(Ok("Transfer failed", <<>>), <<>>, {<<"SmartTransferTool error">>})
  ELSE IF d.kind = "nojson"
    THEN Result(Ok("Failed to parse transfer instruction", <<>>), <<>>, {})
  ELSE IF d.amount = None \/ d.recipient = None
    THEN Result(Ok("Please specify both amount and recipient address", <<>>), <<>>, {})
  ELSE LET r == IF targetChain(d) = "solana"
                  THEN transferSolana(sol, d.recipient, d.amount, rpc)
                  ELSE transferEvm(evm, targetChain(d), d.recipient, d.amount, rpc)
       IN IF r.out.kind = "thrown"
            THEN Result(Ok("Transfer failed", <<>>), r.net, {<<"SmartTransferTool error">>})
            ELSE r

\* a transfer call: the tool's name and the parameters of the transfer; for
\* smartTransfer these are the fields the parsing model extracted
TransferCall(name, d) ==
  [name |-> name, evm |-> None, sol |-> None, kind |-> d.kind, amount |-> d.amount,
   token |-> d.token, chain |-> d.chain, to |-> d.recipient]

SmartTransfer(d, rpc) ==
  LET r == SmartTransferCall(d, evmWallets, solanaKeypair, rpc)
  IN Direct(TransferCall("smartTransfer", d),
            [evm |-> evmWallets, sol |-> solanaKeypair, out |-> r.out, net |-> r.net],
            r.entries)

\* the answers of the parsing model explored
ParseResults ==
  {NoJson, ParseThrows}
    \cup {Parsed(a, t, c, r) : a \in Amounts \cup {None}, t \in {None, "ETH", "SOL"},
                               c \in {None, "Base", "solana"}, r \in Recipients \cup {None}}

\* the wallets connected before a transfer
TransferWallets == {Call("setWallet", "k1", None), Call("setWallet", None, "s1")}

InitSmartTransfer == InitWith({}, {NoBody})

NextSmartTransfer ==
  \/ \E a \in TransferWallets : SetWallet(a)
  \/ \E d \in ParseResults, rpc \in RpcOutcomes : SmartTransfer(d, rpc)

SpecSmartTransfer == InitSmartTransfer /\ [][NextSmartTransfer]_vars

\* the call submitted a transaction
Submitted(net) == \E i \in 1..Len(net) : net[i].op = "sendTransaction"

\* the recipient is a well-formed address of the chain
WellFormed(to, chain) == IF chain = "solana" THEN IsPublicKey(to) ELSE isAddress(to)

\* C17: smartTransfer submits a transaction only when all four fields were
\* extracted and are valid: a positive amount, a token, a chain of the
\* registry and a recipient that is a well-formed address of that chain.
C17_SmartTransferNeedsEveryField ==
  (last.call.name = "smartTransfer" /\ Submitted(last.net)) =>
    /\ last.call.kind = "json"
    /\ last.call.amount # None /\ Positive(last.call.amount)
    /\ last.call.token # None
    /\ last.call.chain # None
    /\ \E i \in 1..Len(ChainKeys) : ChainKeys[i] = toLowerCase(last.call.chain)
    /\ last.call.to # None
    /\ WellFormed(last.call.to, toLowerCase(last.call.chain))

\* C18: a transfer tool returns its success text only when the transaction
\* was submitted and its confirmation completed successfully.
C18_SuccessOnlyAfterConfirmation ==
  (/\ last.call.name \in {"smartTransfer", "transferTokens"}
   /\ last.out.text \in {"Successfully transferred", "Transferred"})
    => /\ Len(last.net) = 2
       /\ last.net[1] = Invocation("sendTransaction", TRUE)
       /\ last.net[2].op \in {"wait", "confirmTransaction"}
       /\ last.net[2].ok

(***************************************************************************)
(* transferTokens of the per-chain variants: the serverless variant        *)
(* (TransferTokens) and the single-call variant (TransferTokensSimple).    *)
(***************************************************************************)
\* TransferTokensTool._call of the serverless variant: validateChain, the
\* wallet check, then the try block; a failure in the block is logged and
\* rethrown
TransferTokensCall(chain, to, amount, w, rpc) ==
  LET v == validateChain(chain)
  IN IF v.threw THEN Result(Thrown("Chain not supported"), <<>>, {})
     ELSE IF w[v.chain] = None THEN Result(Ok("No wallet set", <<>>), <<>>, {})
     ELSE LET r == EvmSend(to, amount, rpc)
          IN IF r.done
               THEN Result(Ok("Transferred", <<<<ChainTitle(v.chain), to, amount>>>>),
                           r.net, {<<"Transfer">>})
               ELSE Result(Thrown("Failed to transfer tokens"), r.net,
                           {<<"TransferTokensTool error">>})

\* TransferTokensTool._call of the single-call variant: validateChain, the
\* wallet check, the address check, the amount check, then the try block; a
\* failure in the block is logged and returned as a string
TransferTokensSimpleCall(chain, to, amount, w, rpc) ==
  LET v == validateChain(chain)
  IN IF v.threw THEN Result(Thrown("Chain not supported"), <<>>, {})
     ELSE IF w[v.chain] = None
       THEN Result(Ok("No wallet set. Please set a wallet using 'setWallet' first.", <<>>),
                   <<>>, {})
     ELSE IF ~isAddress(to) THEN Result(Ok("Invalid recipient address", <<>>), <<>>, {})
     ELSE IF NotANumber(amount) \/ ~Positive(amount)
       THEN Result(Ok("Invalid amount", <<>>), <<>>, {})
     ELSE LET r == EvmSend(to, amount, rpc)
          IN IF r.done
               THEN Result(Ok("Transferred", <<<<ChainTitle(v.chain), to, amount>>>>),
                           r.net, {<<"Transfer">>})
               ELSE Result(Ok("Failed to transfer tokens", <<>>), r.net,
                           {<<"TransferTokensTool error">>})

\* the arguments of a transferTokens call
TransferArgs(chain, to, amount) ==
  [Parsed(amount, None, chain, to) EXCEPT !.kind = "args"]

TransferTokens(chain, to, amount, rpc) ==
  LET r == TransferTokensCall(chain, to, amount, wallets, rpc)
  IN DirectChainNet(TransferCall("transferTokens", TransferArgs(chain, to, amount)),
                    wallets, r.out, r.entries, r.net)

TransferTokensSimple(chain, to, amount, rpc) ==
  LET r == TransferTokensSimpleCall(chain, to, amount, wallets, rpc)
  IN DirectChainNet(TransferCall("transferTokens", TransferArgs(chain, to, amount)),
                    wallets, r.out, r.entries, r.net)

\* how the network answers a transaction submitted on an EVM chain
EvmRpcOutcomes == RpcOutcomes \ {"confirmErr"}

InitTransferTokens == InitWith({}, {NoBody})

NextTransferTokens ==
  \/ \E c \in {"ethereum", "Monad"} : ChainSetWallet("k1", c)
  \/ \E c \in ChainArgs, to \in Recipients, a \in Amounts, rpc \in EvmRpcOutcomes :
       TransferTokens(c, to, a, rpc)
  \/ \E c \in ChainArgs, to \in Recipients, a \in Amounts, rpc \in EvmRpcOutcomes :
       TransferTokensSimple(c, to, a, rpc)

SpecTransferTokens == InitTransferTokens /\ [][NextTransferTokens]_vars

IsTransfer(call) == call.name \in {"smartTransfer", "transferTokens"}

\* the chain a transfer is meant for: the registered chain its chain
\* parameter spells, for smartTransfer the chain _call resolves; None when
\* there is none
TargetChain(call) ==
  IF call.name = "smartTransfer"
    THEN (IF call.kind # "json" THEN None
          ELSE IF \E i \in 1..Len(ChainKeys) : ChainKeys[i] = targetChain(call)
            THEN targetChain(call) ELSE None)
    ELSE IF \E k \in ChainSet : call.chain \in Spellings(k)
      THEN CHOOSE k \in ChainSet : call.chain \in Spellings(k)
      ELSE None

\* the signer bound for the chain a transfer is meant for, None when none is
SignerOf(call) ==
  IF TargetChain(call) = None THEN None
  ELSE IF call.name = "smartTransfer"
    THEN (IF TargetChain(call) = "solana" THEN solanaKeypair
          ELSE getEvmWallet(evmWallets, TargetChain(call)))
    ELSE wallets[TargetChain(call)]

\* C14: a transfer whose amount is not a positive number makes no invocation
\* on a signer or provider and does not succeed, and when a signer is bound
\* and the recipient is well formed its result is the invalid-amount message.
C14_InvalidAmountFailsFast ==
  (/\ IsTransfer(last.call)
   /\ last.call.amount # None
   /\ ~Positive(last.call.amount))
    => /\ last.net = <<>>
       /\ last.out.text \notin {"Successfully transferred", "Transferred"}
       /\ (/\ SignerOf(last.call) # None
           /\ last.call.to # None
           /\ WellFormed(last.call.to, TargetChain(last.call)))
            => last.out = Ok("Invalid amount", <<>>)

\* C15: a transfer whose recipient is no well-formed address of the target
\* chain makes no invocation on a signer or provider, and when a signer is
\* bound its result is the invalid-address message.
C15_InvalidAddressFailsFast ==
  (/\ IsTransfer(last.call)
   /\ last.call.to # None
   /\ TargetChain(last.call) # None
   /\ ~WellFormed(last.call.to, TargetChain(last.call)))
    => /\ last.net = <<>>
       /\ SignerOf(last.call) # None => last.out = Ok("Invalid recipient address", <<>>)

\* the messages that report a missing signer and tell the user to connect
NoWalletBound ==
  {"No wallet connected. Please connect your EVM wallet first.",
   "No Solana wallet connected. Please connect your Solana wallet first.",
   "No wallet set. Please set a wallet using 'setWallet' first."}

\* C16: a transfer for a chain whose family has no signer bound submits no
\* transaction and returns a message that reports the missing signer and
\* tells the user to connect, whatever the other parameters are.
C16_NoSignerNoTransfer ==
  (/\ IsTransfer(last.call)
   /\ TargetChain(last.call) # None
   /\ SignerOf(last.call) = None)
    => /\ ~Submitted(last.net)
       /\ last.out.kind = "ok"
       /\ last.out.text \in NoWalletBound

(***************************************************************************)
(* getBalance of the per-chain variants: the serverless variant            *)
(* (GetBalance) and the single-call variant (GetBalanceSimple).            *)
(***************************************************************************)
\* tokenMap: the known tokens of each chain, in the order of the literal
tokenMap(c) ==
  CASE c = "ethereum" -> <<"USDC", "USDT">>
    [] c = "monad" -> <<>>
    [] c = "bsc" -> <<"USDC", "USDT">>
    [] c = "baseSepolia" -> <<"USDC">>

TokenSymbols == {"USDC", "USDT"}

\* CHAINS[chain].nativeCurrency.symbol
NativeSymbol(c) ==
  CASE c = "ethereum" -> "ETH"
    [] c = "monad" -> "MONAD"
    [] c = "bsc" -> "BNB"
    [] c = "baseSepolia" -> "ETH"

\* how a token contract answers: both reads succeed, balanceOf rejects, or
\* balanceOf succeeds and decimals rejects
TokenOutcomes == {"ok", "balanceOfFails", "decimalsFails"}

\* a variant of the token loop in which a failed token leaves no line
TokenLinesSkipFailed(tokens, tok) ==
  LET all == [i \in 1..Len(tokens) |-> <<tokens[i], "balance">>]
  IN SelectSeq(all, LAMBDA l : tok[l[1]] = "ok")

\* the lines the token loop pushes: the token's balance, or "Unable to
\* fetch" from the catch around one token
TokenLines(tokens, tok) ==
  [i \in 1..Len(tokens) |->
     <<tokens[i], IF tok[tokens[i]] = "ok" THEN "balance" ELSE "Unable to fetch">>]

\* the contract reads of the token loop from token i on
RECURSIVE TokenNet(_, _, _)
TokenNet(tokens, i, tok) ==
  IF i > Len(tokens) THEN <<>>
  ELSE (IF tok[tokens[i]] = "balanceOfFails"
          THEN <<Invocation("balanceOf", FALSE)>>
          ELSE <<Invocation("balanceOf", TRUE),
                 Invocation("decimals", tok[tokens[i]] = "ok")>>)
       \o TokenNet(tokens, i + 1, tok)

\* the log.error entries of the token loop
TokenErrors(tokens, tok) ==
  {<<"Error fetching balance for", tokens[i]>> :
     i \in {j \in 1..Len(tokens) : tok[tokens[j]] # "ok"}}

\* GetBalanceTool._call of the serverless variant: the native balance is
\* read outside any try block, so its failure leaves the call
GetBalanceCall(chain, address, w, native, tok) ==
  LET v == validateChain(chain)
  IN IF v.threw THEN Result(Thrown("Chain not supported"), <<>>, {})
     ELSE IF address = None /\ w[v.chain] = None
       THEN Result(Ok("No wallet set and no address provided", <<>>), <<>>, {})
     ELSE IF ~native
       THEN Result(Thrown("getBalance failed"), <<Invocation("getBalance", FALSE)>>, {})
     ELSE Result(Ok("balances for",
                    <<<<NativeSymbol(v.chain), "balance">>>>
                      \o TokenLines(tokenMap(v.chain), tok)),
                 <<Invocation("getBalance", TRUE)>> \o TokenNet(tokenMap(v.chain), 1, tok),
                 TokenErrors(tokenMap(v.chain), tok))

\* GetBalanceTool._call of the single-call variant: the native read and the
\* token loop are inside one try block whose catch returns a string
GetBalanceSimpleCall(chain, address, w, native, tok) ==
  LET v == validateChain(chain)
  IN IF v.threw THEN Result(Thrown("Chain not supported"), <<>>, {})
     ELSE IF address = None /\ w[v.chain] = None
       THEN Result(Ok("No wallet set and no address provided. Please set a wallet using 'setWallet' first.",
                      <<>>), <<>>, {})
     ELSE IF ~native
       THEN Result(Ok("Failed to fetch balances", <<>>),
                   <<Invocation("getBalance", FALSE)>>, {<<"GetBalanceTool error">>})
     ELSE Result(Ok("balances for",
                    <<<<NativeSymbol(v.chain), "balance">>>>
                      \o TokenLines(tokenMap(v.chain), tok)),
                 <<Invocation("getBalance", TRUE)>> \o TokenNet(tokenMap(v.chain), 1, tok),
                 TokenErrors(tokenMap(v.chain), tok))

\* a getBalance call with its arguments and the answers of the network
BalanceCall(chain, address, native, tok) ==
  [name |-> "getBalance", evm |-> None, sol |-> None, chain |-> chain,
   address |-> address, native |-> native, tok |-> tok]

GetBalance(chain, address, native, tok) ==
  LET r == GetBalanceCall(chain, address, wallets, native, tok)
  IN DirectChainNet(BalanceCall(chain, address, native, tok), wallets, r.out, r.entries,
                    r.net)

GetBalanceSimple(chain, address, native, tok) ==
  LET r == GetBalanceSimpleCall(chain, address, wallets, native, tok)
  IN DirectChainNet(BalanceCall(chain, address, native, tok), wallets, r.out, r.entries,
                    r.net)

\* the address arguments of getBalance: none, or an explicit address
Addresses == {None, "0xB0b"}

InitBalance == InitWith({}, {NoBody})

\* the chain arguments of the getBalance calls explored
BalanceChains == ChainArgs \ {"solana"}

NextBalance ==
  \/ ChainSetWallet("k1", "ethereum")
  \/ \E c \in BalanceChains, a \in Addresses, native \in BOOLEAN,
        tok \in [TokenSymbols -> TokenOutcomes] : GetBalance(c, a, native, tok)
  \/ \E c \in BalanceChains, a \in Addresses, native \in BOOLEAN,
        tok \in [TokenSymbols -> TokenOutcomes] : GetBalanceSimple(c, a, native, tok)
  \/ SetWallet(Call("setWallet", "k1", None))
  \/ \E down \in SUBSET FlakyChains : GetAllBalances(down)

SpecBalance == InitBalance /\ [][NextBalance]_vars

\* C19: getBalance for a registered chain with no wallet set and no address
\* given, and getAllBalances with no wallet connected, return an explanatory
\* string, do not throw and make no invocation on a provider.
C19_NoSignerNoAddressExplains ==
  /\ (/\ last.call.name = "getBalance"
      /\ last.call.address = None
      /\ \E k \in ChainSet : last.call.chain \in Spellings(k) /\ wallets[k] = None)
       => /\ last.net = <<>>
          /\ last.out.kind = "ok"
          /\ last.out.text \in
               {"No wallet set and no address provided",
                "No wallet set and no address provided. Please set a wallet using 'setWallet' first."}
  /\ (/\ last.call.name = "getAllBalances"
      /\ \A i \in 1..Len(EvmChainKeys) : getEvmWallet(evmWallets, EvmChainKeys[i]) = None
      /\ solanaKeypair = None)
       => /\ last.net = <<>>
          /\ last.out = Ok("No wallets connected", <<>>)

\* C20: when the native balance of a getBalance call was read, the call
\* returns the native-currency line first and then one line for every token
\* of the chain's registry, in registry order; a token whose balanceOf or
\* decimals read failed has the "Unable to fetch" line and every other token
\* its balance.
C20_TokenFailureStaysOnItsLine ==
  (/\ last.call.name = "getBalance"
   /\ last.net # <<>>
   /\ last.net[1] = Invocation("getBalance", TRUE))
    => LET c == validateChain(last.call.chain).chain
           tokens == tokenMap(c)
       IN /\ last.out.kind = "ok"
          /\ Len(last.out.lines) = 1 + Len(tokens)
          /\ last.out.lines[1] = <<NativeSymbol(c), "balance">>
          /\ \A i \in 1..Len(tokens) :
               last.out.lines[i + 1] =
                 <<tokens[i], IF last.call.tok[tokens[i]] = "ok"
                                THEN "balance" ELSE "Unable to fetch">>

\* a getBalance call in which the first token's read failed and the second
\* token's succeeded
C20_Witness ==
  /\ last.call.name = "getBalance"
  /\ last.out.kind = "ok"
  /\ Len(last.out.lines) = 3
  /\ last.out.lines[2] = <<"USDC", "Unable to fetch">>
  /\ last.out.lines[3] = <<"USDT", "balance">>
  /\ Invocation("decimals", FALSE) \in {last.net[i] : i \in 1..Len(last.net)}

(***************************************************************************)
(* The read-only market tools: getGasPrices and getTokenPrices of the      *)
(* multi-chain variant, getTokenPrice of the per-chain variants.           *)
(***************************************************************************)
\* how provider.getFeeData() of one chain answers: fee data with a gas
\* price, fee data whose gasPrice is null, or a rejection
FeeOutcomes == {"price", "null", "throws"}

\* GetGasPricesTool._call, the loop from the i-th EVM chain on: a line with
\* the price, no line when gasPrice is null, the error line from the catch
RECURSIVE GasLines(_, _)
GasLines(i, fee) ==
  IF i > Len(EvmChainKeys) THEN <<>>
  ELSE (CASE fee[EvmChainKeys[i]] = "price" ->
               <<<<ChainName(EvmChainKeys[i]), "gwei">>>>
          [] fee[EvmChainKeys[i]] = "null" -> <<>>
          [] fee[EvmChainKeys[i]] = "throws" ->
               <<<<ChainName(EvmChainKeys[i]), "Error fetching gas price">>>>)
       \o GasLines(i + 1, fee)

\* GetGasPricesTool._call
GetGasPricesCall(fee) ==
  Result(IF GasLines(1, fee) = <<>>
           THEN Ok("Unable to fetch gas prices from any chain.", <<>>)
           ELSE Ok("Current Gas Prices", GasLines(1, fee)),
         [i \in 1..Len(EvmChainKeys) |->
            Invocation("getFeeData", fee[EvmChainKeys[i]] # "throws")],
         {})

GetGasPrices(fee) ==
  LET r == GetGasPricesCall(fee)
  IN Direct([name |-> "getGasPrices", evm |-> None, sol |-> None, fee |-> fee],
            [evm |-> evmWallets, sol |-> solanaKeypair, out |-> r.out, net |-> r.net],
            r.entries)

\* token identifiers as a caller writes them, one per comma-separated item
Tickers == {"bitcoin", "ETH", "doesnotexist"}

\* String.prototype.toLowerCase on the identifiers
lowerTicker(t) == CASE t = "ETH" -> "eth" [] OTHER -> t

\* String.prototype.toUpperCase on the identifiers
upperTicker(t) ==
  CASE t = "bitcoin" -> "BITCOIN"
    [] t = "eth" -> "ETH"
    [] t = "doesnotexist" -> "DOESNOTEXIST"
    [] OTHER -> t

\* the ids the price API has a price for in some run; it lists coins under
\* their names, never under "eth"
CoinIds == {"bitcoin", "ethereum"}

\* tokens.toLowerCase().split(',').map(t => t.trim())
tokenList(tokens) == [i \in 1..Len(tokens) |-> lowerTicker(tokens[i])]

\* a variant of the forEach in which a token without a price gets no line
PriceLinesFoundOnly(list, data) ==
  SelectSeq([i \in 1..Len(list) |-> <<upperTicker(list[i]), "USD">>],
            LAMBDA l : \E t \in data : upperTicker(t) = l[1])

\* the forEach over tokenList: the priced line when response.data has the
\* token, else "Price not found"
PriceLines(list, data) ==
  [i \in 1..Len(list) |->
     <<upperTicker(list[i]), IF list[i] \in data THEN "USD" ELSE "Price not found">>]

\* GetTokenPriceTool._call of the multi-chain variant (getTokenPrices): one
\* axios.get for the joined list; data is the set of ids the API prices,
\* transport is whether the request came back 2xx in time
GetTokenPricesCall(tokens, data, transport) ==
  IF transport
    THEN Result(Ok("Current Token Prices", PriceLines(tokenList(tokens), data)),
                <<Invocation("axios.get", TRUE)>>, {})
    ELSE Result(Ok("Failed to fetch token prices", <<>>),
                <<Invocation("axios.get", FALSE)>>, {<<"GetTokenPriceTool error">>})

GetTokenPrices(tokens, data, transport) ==
  LET r == GetTokenPricesCall(tokens, data, transport)
  IN Direct([name |-> "getTokenPrices", evm |-> None, sol |-> None,
             tokens |-> tokens, data |-> data, transport |-> transport],
            [evm |-> evmWallets, sol |-> solanaKeypair, out |-> r.out, net |-> r.net],
            r.entries)

\* tokenMap[token.toUpperCase()] || token.toLowerCase() of getTokenPrice
coinId(token) ==
  IF upperTicker(lowerTicker(token)) = "ETH" THEN "ethereum" ELSE lowerTicker(token)

\* GetTokenPriceTool._call of the per-chain variants (getTokenPrice)
GetTokenPriceCall(token, data, transport) ==
  IF ~transport
    THEN Result(Ok("Failed to fetch price", <<>>), <<Invocation("axios.get", FALSE)>>,
                {<<"GetTokenPriceTool error">>})
  ELSE IF coinId(token) \notin data
    THEN Result(Ok("Price not found", <<>>), <<Invocation("axios.get", TRUE)>>,
                {<<"Price not found for token">>})
  ELSE Result(Ok("Price", <<<<upperTicker(lowerTicker(token)), "USD">>>>),
              <<Invocation("axios.get", TRUE)>>, {})

GetTokenPrice(token, data, transport) ==
  LET r == GetTokenPriceCall(token, data, transport)
  IN DirectChainNet([name |-> "getTokenPrice", evm |-> None, sol |-> None,
                     tokens |-> <<token>>, data |-> data, transport |-> transport],
                    wallets, r.out, r.entries, r.net)

MaxTokens == 2

TokenRequests == UNION {[1..n -> Tickers] : n \in 1..MaxTokens}

InitMarket == InitWith({}, {NoBody})

NextMarket ==
  \/ \E fee \in [EvmChainSet -> FeeOutcomes] : GetGasPrices(fee)
  \/ \E tokens \in TokenRequests, data \in SUBSET CoinIds, transport \in BOOLEAN :
       GetTokenPrices(tokens, data, transport)
  \/ \E token \in Tickers, data \in SUBSET CoinIds, transport \in BOOLEAN :
       GetTokenPrice(token, data, transport)

SpecMarket == InitMarket /\ [][NextMarket]_vars

\* C21: getGasPrices asks every EVM chain for its fee data whatever the
\* other chains answered, returns the whole-call message only when no chain
\* gave a price, and otherwise returns one line per EVM chain in registry
\* order.
C21_GasPricesPerChain ==
  last.call.name = "getGasPrices"
    => /\ Len(last.net) = Len(EvmChainKeys)
       /\ last.out.kind = "ok"
       /\ IF last.out.text = "Unable to fetch gas prices from any chain."
            THEN \A c \in EvmChainSet : last.call.fee[c] # "price"
            ELSE /\ Len(last.out.lines) = Len(EvmChainKeys)
                 /\ \A i \in 1..Len(EvmChainKeys) :
                      last.out.lines[i][1] = ChainName(EvmChainKeys[i])

\* C22: getTokenPrices makes exactly one price query; when the query comes
\* back it returns one line per requested token in request order, priced
\* for the tokens the API returned and "Price not found" for the others;
\* the whole call fails exactly when the query itself failed.
C22_OneLinePerRequestedToken ==
  last.call.name = "getTokenPrices"
    => /\ Len(last.net) = 1
       /\ last.net[1].op = "axios.get"
       /\ last.out.kind = "ok"
       /\ (last.out.text = "Failed to fetch token prices") = ~last.call.transport
       /\ last.call.transport =>
            /\ Len(last.out.lines) = Len(last.call.tokens)
            /\ \A i \in 1..Len(last.call.tokens) :
                 LET t == lowerTicker(last.call.tokens[i])
                 IN last.out.lines[i] =
                      <<upperTicker(t),
                        IF t \in last.call.data THEN "USD" ELSE "Price not found">>

\* getTokenPrices("bitcoin,doesnotexist") against an API that returns only
\* bitcoin
C22_Witness ==
  /\ last.call.name = "getTokenPrices"
  /\ last.call.tokens = <<"bitcoin", "doesnotexist">>
  /\ last.call.data = {"bitcoin"}
  /\ last.out.lines = <<<<"BITCOIN", "USD">>, <<"DOESNOTEXIST", "Price not found">>>>

\* the synonym table: the id a ticker stands for
Synonym(t) == CASE t = "ETH" -> "ethereum" [] OTHER -> t

\* C23: a requested ticker whose synonym the price API knows gets a priced
\* line, in getTokenPrices and in getTokenPrice.
C23_SynonymsArePriced ==
  (last.call.name \in {"getTokenPrices", "getTokenPrice"} /\ last.call.transport)
    => \A i \in 1..Len(last.call.tokens) :
         Synonym(last.call.tokens[i]) \in last.call.data
           => /\ Len(last.out.lines) >= i
              /\ last.out.lines[i][2] = "USD"

(***************************************************************************)
(* Startup.  A run starts one variant with or without OPENAI_API_KEY:      *)
(* the multi-chain server, the single-call server, or the serverless       *)
(* handler.                                                                *)
(***************************************************************************)
Variants == {"multi", "simple", "serverless"}

\* the process goes from loading to state st
Started(st, entries) ==
  /\ server' = [server EXCEPT !.st = st]
  /\ log' = log \cup entries
  /\ UNCHANGED <<evmWallets, solanaKeypair, wallets, last, req, chat, pc, messages, round,
                 running, order, response>>

\* module load of the multi-chain server: OPENAI_API_KEY || "" goes to
\* new ChatOpenAI without a check; with an empty key the constructor either
\* throws, which ends the process, or returns, and app.listen runs
StartMultiChain(constructorThrows) ==
  /\ server.variant = "multi"
  /\ server.st = "loading"
  /\ constructorThrows => ~server.key
  /\ Started(IF constructorThrows THEN "exited" ELSE "listening", {})

\* module load of the single-call server: process.exit(1) when the key is
\* not set, else app.listen
StartSimple ==
  /\ server.variant = "simple"
  /\ server.st = "loading"
  /\ IF server.key
       THEN Started("listening", {<<"OPENAI_API_KEY: Set">>})
       ELSE Started("exited", {<<"OPENAI_API_KEY is not set">>})

\* module load of the serverless handler: as in the multi-chain server, the
\* key goes to new ChatOpenAI without a check
StartServerless(constructorThrows) ==
  /\ server.variant = "serverless"
  /\ server.st = "loading"
  /\ constructorThrows => ~server.key
  /\ Started(IF constructorThrows THEN "exited" ELSE "listening", {})

\* the serverless handler up to agent.invoke: the input check, then the
\* check of the key, then the messages
Handler(s) ==
  /\ pc[s] = "recv"
  /\ IF Len(req[s].input) = 0
       THEN /\ response' = [response EXCEPT ![s] =
                 Response(400, [text |-> "Input is required", of |-> 0], None)]
            /\ pc' = [pc EXCEPT ![s] = "done"]
            /\ UNCHANGED <<messages, log>>
     ELSE IF ~server.key
       THEN /\ response' = [response EXCEPT ![s] =
                 Response(500, [text |-> "AI service not configured", of |-> 0], None)]
            /\ pc' = [pc EXCEPT ![s] = "done"]
            /\ log' = log \cup {<<"OPENAI_API_KEY not configured">>}
            /\ UNCHANGED messages
     ELSE /\ messages' = [messages EXCEPT ![s] = SimpleMessages(req[s])]
          /\ log' = log \cup {<<"Processing request">> \o req[s].input}
          /\ pc' = [pc EXCEPT ![s] = "agent"]
          /\ UNCHANGED response
  /\ UNCHANGED <<evmWallets, solanaKeypair, wallets, last, req, server, chat, round, running,
                 order>>

\* a listening process of variant v takes request s
Serve(s) ==
  /\ server.st = "listening"
  /\ CASE server.variant = "multi" -> AgentHandler(s)
       [] server.variant = "simple" -> AgentHandlerSimple(s)
       [] server.variant = "serverless" -> Handler(s)

\* the model answers request s without asking for a tool; the API answers
\* only a request that carries a key
ModelAnswers(s) ==
  /\ server.key
  /\ IF server.variant = "simple" THEN InvokeAgent(s, <<>>)
                                  ELSE CallAgent(s, <<>>, MaxToolCalls)

\* the model call of request s fails
ModelFails(s) ==
  IF server.variant = "simple" THEN InvokeAgentThrows(s) ELSE CallAgentThrows(s)

StartupBodies == {Body(<<>>, "k1", None), Body(<<"hi">>, None, None), Body(<<"hi">>, "k1", None)}

InitStartup ==
  \E v \in Variants, key \in BOOLEAN :
    InitProcess(Sessions, StartupBodies, Server(v, key, "loading"))

NextStartup ==
  \/ \E t \in BOOLEAN : StartMultiChain(t)
  \/ StartSimple
  \/ \E t \in BOOLEAN : StartServerless(t)
  \/ \E s \in Sessions : Serve(s)
  \/ \E s \in Sessions : ModelAnswers(s)
  \/ \E s \in Sessions : ModelFails(s)

SpecStartup == InitStartup /\ [][NextStartup]_vars

\* C27: in a run that started without the model API key no request is
\* accepted and processed: no message list is built for a request and no
\* model call is made for it.
C27_NoKeyNoService ==
  ~server.key =>
    \A s \in Sessions : messages[s] = <<>> /\ pc[s] \notin {"agent", "invoke"}

(***************************************************************************)
(* batchMixedTransfer of the serverless variant.                           *)
(***************************************************************************)
\* parts[i] of a JavaScript array, 1-based: undefined beyond the end
At(parts, i) == IF i <= Len(parts) THEN parts[i] ELSE None

\* String.prototype.toUpperCase on the type words
upperType(w) ==
  CASE w = "bnb" -> "BNB"
    [] w = "token" -> "TOKEN"
    [] OTHER -> w

\* property names every object literal inherits from Object.prototype
ObjectPrototypeKeys == {"constructor"}

\* !tokenMap[validChain] || !tokenMap[validChain][tokenName] is false: the
\* lookup finds the chain's own tokens and the inherited properties
TokenFound(chain, tokenName) ==
  \/ \E i \in 1..Len(tokenMap(chain)) : tokenMap(chain)[i] = tokenName
  \/ tokenName \in ObjectPrototypeKeys

\* the parsing loop of BatchMixedTransferTool._call from word i on, with the
\* transfers pushed so far: the list, or the message of the first return
RECURSIVE ParseTransfers(_, _, _, _)
ParseTransfers(parts, i, chain, transferList) ==
  IF i > Len(parts) THEN [err |-> None, list |-> transferList]
  ELSE
    LET type == upperType(parts[i])
        to == At(parts, i + 1)
        amount == At(parts, i + 2)
        tokenName == IF type = "TOKEN" THEN At(parts, i + 3) ELSE None
    IN IF type = "TOKEN" /\ i + 3 > Len(parts)
         THEN [err |-> "Missing token name", list |-> transferList]
       ELSE IF type = "TOKEN" /\ ~TokenFound(chain, tokenName)
         THEN [err |-> "Token not found", list |-> transferList]
       ELSE IF type # "TOKEN" /\ type # NativeSymbol(chain)
         THEN [err |-> "Invalid type", list |-> transferList]
       ELSE IF ~isAddress(to) THEN [err |-> "Invalid address", list |-> transferList]
       ELSE IF amount = None \/ NotANumber(amount) \/ ~Positive(amount)
         THEN [err |-> "Invalid amount", list |-> transferList]
       ELSE ParseTransfers(parts, IF type = "TOKEN" THEN i + 4 ELSE i + 3, chain,
                           Append(transferList,
                                  [type |-> type, to |-> to, amount |-> amount,
                                   tokenName |-> tokenName]))

\* the invocations of the sending loop for the transfer at index: the
\* native send or the token contract's transfer, then wait; a token whose
\* address is not a string fails before anything is sent
SendNet(t, chain, ok) ==
  IF t.type = "TOKEN" /\ t.tokenName \in ObjectPrototypeKeys THEN <<>>
  ELSE IF ~ok
    THEN <<Invocation(IF t.type = "TOKEN" THEN "transfer" ELSE "sendTransaction", FALSE)>>
  ELSE <<Invocation(IF t.type = "TOKEN" THEN "transfer" ELSE "sendTransaction", TRUE),
         Invocation("wait", TRUE)>>

RECURSIVE BatchNet(_, _, _, _)
BatchNet(list, i, chain, rpc) ==
  IF i > Len(list) THEN <<>>
  ELSE SendNet(list[i], chain, rpc[i]) \o BatchNet(list, i + 1, chain, rpc)

\* the result line of the transfer at index i
BatchLine(t, i, ok) ==
  IF ok /\ ~(t.type = "TOKEN" /\ t.tokenName \in ObjectPrototypeKeys)
    THEN <<i, "Transfer", t.to>> ELSE <<i, "failed", t.to>>

\* BatchMixedTransferTool._call: parts are the space-separated words of the
\* transfers argument, rpc[i] is whether the network accepts the i-th send
BatchMixedTransferCall(chain, parts, w, nonce, rpc) ==
  LET v == validateChain(chain)
  IN IF v.threw THEN Result(Thrown("Chain not supported"), <<>>, {})
     ELSE IF w[v.chain] = None
       THEN Result(Ok("No wallet set. Please set a wallet first.", <<>>), <<>>, {})
     ELSE IF Len(parts) < 3 THEN Result(Ok("Invalid format", <<>>), <<>>, {})
     ELSE LET p == ParseTransfers(parts, 1, v.chain, <<>>)
          IN IF p.err # None THEN Result(Ok(p.err, <<>>), <<>>, {})
             ELSE IF ~nonce
               THEN Result(Thrown("getNonce failed"), <<Invocation("getNonce", FALSE)>>, {})
             ELSE Result(Ok("Batch transfer completed",
                            [i \in 1..Len(p.list) |-> BatchLine(p.list[i], i, rpc[i])]),
                         <<Invocation("getNonce", TRUE)>>
                           \o BatchNet(p.list, 1, v.chain, rpc),
                         IF \E j \in 1..Len(p.list) :
                              BatchLine(p.list[j], j, rpc[j])[2] = "failed"
                           THEN {<<"Transfer failed">>} ELSE {})

\* the transfers a caller may list, each as its words
Entries ==
  {<<"BNB", "0xB0b", "0.1">>, <<"bnb", "0xB0b", "0.1">>,
   <<"BNB", "not-an-address", "0.1">>, <<"BNB", "0xB0b", "0">>,
   <<"DOGE", "0xB0b", "0.1">>, <<"BNB", "0xB0b">>,
   <<"TOKEN", "0xB0b", "0.1", "USDC">>, <<"TOKEN", "0xB0b", "0.1", "SHIB">>,
   <<"TOKEN", "0xB0b", "0.1", "constructor">>, <<"TOKEN", "0xB0b", "0.1">>,
   <<"TOKEN", "0xB0b", "-1", "USDT">>}

MaxEntries == 2

Batches == UNION {[1..n -> Entries] : n \in 1..MaxEntries}

RECURSIVE Words(_)
\* the transfers argument of a batch: the words of its entries in order
Words(batch) == IF Len(batch) = 0 THEN <<>> ELSE Head(batch) \o Words(Tail(batch))

BatchMixedTransfer(chain, batch, nonce, rpc) ==
  LET r == BatchMixedTransferCall(chain, Words(batch), wallets, nonce, rpc)
  IN DirectChainNet([name |-> "batchMixedTransfer", evm |-> None, sol |-> None,
                     chain |-> chain, batch |-> batch],
                    wallets, r.out, r.entries, r.net)

InitBatch == InitWith({}, {NoBody})

NextBatch ==
  \/ ChainSetWallet("k1", "bsc")
  \/ \E batch \in Batches, nonce \in BOOLEAN, rpc \in [1..MaxEntries -> BOOLEAN] :
       BatchMixedTransfer("bsc", batch, nonce, rpc)

SpecBatch == InitBatch /\ [][NextBatch]_vars

\* an entry passes validation on a chain: its type is the chain's native
\* symbol or TOKEN, a TOKEN entry names a token of the chain's registry, the
\* address is well formed and the amount is a positive number
ValidEntry(e, chain) ==
  /\ Len(e) >= 3
  /\ upperType(e[1]) \in {NativeSymbol(chain), "TOKEN"}
  /\ upperType(e[1]) = "TOKEN" =>
       /\ Len(e) = 4
       /\ \E i \in 1..Len(tokenMap(chain)) : tokenMap(chain)[i] = e[4]
  /\ isAddress(e[2])
  /\ Positive(e[3])

\* C29: a batchMixedTransfer whose list has an entry that does not pass
\* validation makes no invocation on the signer or the network.
C29_InvalidEntryRejectsBatch ==
  (/\ last.call.name = "batchMixedTransfer"
   /\ ~validateChain(last.call.chain).threw
   /\ \E i \in 1..Len(last.call.batch) :
        ~ValidEntry(last.call.batch[i], validateChain(last.call.chain).chain))
    => last.net = <<>>

(***************************************************************************)
(* The chat interface (ChatInterface).  An event handler reads the state   *)
(* of the latest render: the state updates of one event are rendered       *)
(* before the next event is dispatched.                                    *)
(***************************************************************************)
\* what the user may have typed into the input
Texts == {"", " ", "hi", " hi "}

\* String.prototype.trim on the texts
trim(t) ==
  CASE t = " " -> ""
    [] t = " hi " -> "hi"
    [] OTHER -> t

\* how makeApiRequest ends: a body with a response, a body without one, or
\* a rejection with one of these messages
Outcomes == {"answer", "empty", "timeout", "Failed to connect", "HTTP 500"}

\* the displayError of the catch in sendMessage
displayError(errorMessage) ==
  CASE errorMessage = "timeout" -> "The server is starting up"
    [] errorMessage = "Failed to connect" -> "Unable to connect to the AI service"
    [] errorMessage = "empty" -> "Empty response from backend server"
    [] OTHER -> errorMessage

\* the rest of the state stays as it is
ChatOnly ==
  UNCHANGED <<evmWallets, solanaKeypair, wallets, last, req, server, pc, messages, round,
              running, order, response, log>>

\* the number of user messages a run may append
MaxUserMessages == 3

UserMessages(msgs) == Cardinality({i \in 1..Len(msgs) : msgs[i].role = "user"})

\* onChange of the input, which is disabled while loading or signed out
SetInputValue(t) ==
  /\ ~chat.isLoading
  /\ chat.isAuthenticated
  /\ chat' = [chat EXCEPT !.inputValue = t]
  /\ ChatOnly

\* the user signs in or out; the effect on isAuthenticated sets or clears
\* connectionError
SetAuthenticated(b) ==
  /\ chat.isAuthenticated # b
  /\ chat' = [chat EXCEPT !.isAuthenticated = b,
                          !.connectionError = IF b THEN None ELSE "Please authenticate"]
  /\ ChatOnly

\* sendMessage up to the await inside handleSendMessage: nothing when the
\* input is blank or a request is in flight, a toast when signed out, else
\* the user message is appended and the request is sent
sendMessage ==
  /\ UserMessages(chat.messages) < MaxUserMessages
  /\ IF trim(chat.inputValue) = "" \/ chat.isLoading \/ ~chat.isAuthenticated
       THEN chat' = chat
       ELSE chat' = [chat EXCEPT
              !.messages = Append(@, Message("user", trim(chat.inputValue))),
              !.inputValue = "",
              !.isLoading = TRUE,
              !.connectionError = None,
              !.flight = trim(chat.inputValue)]
  /\ ChatOnly

\* a catch in sendMessage that reports the error without appending a message
handleSendMessageNoApology(outcome) ==
  /\ chat.flight # None
  /\ chat' = [chat EXCEPT
       !.messages = IF outcome = "answer"
                      THEN Append(@, Message("assistant", "answer")) ELSE @,
       !.connectionError = IF outcome = "answer" THEN None ELSE displayError(outcome),
       !.isLoading = FALSE,
       !.flight = None]
  /\ ChatOnly

\* makeApiRequest settles: handleSendMessage appends the answer, or throws
\* and the catch of sendMessage appends the apology; finally isLoading is
\* false
handleSendMessage(outcome) ==
  /\ chat.flight # None
  /\ chat' = [chat EXCEPT
       !.messages = Append(@, Message("assistant",
                                      IF outcome = "answer" THEN "answer" ELSE "apology")),
       !.connectionError = IF outcome = "answer" THEN None ELSE displayError(outcome),
       !.isLoading = FALSE,
       !.flight = None]
  /\ ChatOnly

InitChat == InitWith({}, {NoBody})

NextChat ==
  \/ \E t \in Texts : SetInputValue(t)
  \/ \E b \in BOOLEAN : SetAuthenticated(b)
  \/ sendMessage
  \/ \E outcome \in Outcomes : handleSendMessage(outcome)

SpecChat == InitChat /\ [][NextChat]_vars

\* user and assistant messages alternate after the greeting, and the last
\* message is a user message exactly while its request is in flight
Alternates ==
  /\ \A i \in 1..Len(chat.messages) :
       chat.messages[i].role = (IF i % 2 = 1 THEN "assistant" ELSE "user")
  /\ (Last(chat.messages).role = "user") = chat.isLoading
  /\ chat.isLoading = (chat.flight # None)

\* C30: every user message is followed by exactly one assistant message
\* before the next user message; while a request is in flight no user
\* message is appended, and whenever a request settles one assistant message
\* is appended and isLoading is false again.
C30_OneAnswerPerUserMessage ==
  /\ []Alternates
  /\ [][/\ chat.isLoading /\ Last(chat'.messages).role = "user"
             => chat'.messages = chat.messages
        /\ chat.flight # None /\ chat'.flight = None
             => /\ chat'.messages = Append(chat.messages, Last(chat'.messages))
                /\ Last(chat'.messages).role = "assistant"
                /\ ~chat'.isLoading]_vars

\* two user messages, the first answered with the apology and the second
\* with the backend's answer
C30_Witness ==
  /\ Len(chat.messages) = 5
  /\ chat.messages[3] = Message("assistant", "apology")
  /\ chat.messages[5] = Message("assistant", "answer")
  /\ ~chat.isLoading

====
